---------------------------- MODULE Spec2Model ----------------------------
(***************************************************************************)
(* A model of the review aggregation and scoring engine of the PR review   *)
(* agent: the quality score of feedback_generation.py, the diff line       *)
(* mapper of inline_comments.py and the per-file analysis of               *)
(* code_analysis.py.                                                       *)
(*                                                                         *)
(* Text is modelled as a sequence of one-character strings, so that the    *)
(* prefix tests and regular expressions of the source are computed on      *)
(* characters.  Floats of the score are modelled exactly, in tenths.       *)
(***************************************************************************)
EXTENDS Integers, Sequences, FiniteSets, TLC

VARIABLES
    mode,          \* which part of the engine this behaviour exercises
    all_issues,    \* feedback_generation: the aggregate mapping category -> issues
    summary,       \* feedback_generation: the result of _generate_summary on all_issues
    self,          \* inline_comments: the generator instance whose method runs
    patch,         \* inline_comments: file_data['patch'] of the running call
    parse_pc,      \* inline_comments: "idle", "loop" (in the for loop) or "returned"
    pos,           \* inline_comments: index of the next element of patch_lines
    current_line,  \* inline_comments: the local current_line
    line_mapping,  \* inline_comments: the local line_mapping
    earlier,       \* the remembered earlier call, if any: its patch and returned mapping
    scanned,       \* code_analysis: the file_content given to _run_security_analysis, if any
    scan_result,   \* code_analysis: the mapping _run_security_analysis returned
    frames,        \* code_analysis: for each thread, the locals of its call of analyze_file
    disk,          \* the temporary files that exist
    score,         \* feedback_generation: the argument of _get_risk_level
    risk_level,    \* feedback_generation: what _get_risk_level returned
    analysis_results,  \* feedback_generation: the per-file results of the reviewed change set
    review,        \* feedback_generation: what generate_comprehensive_feedback computed for them
    recommendations,   \* feedback_generation: what _generate_smart_recommendations returned
    file_data,     \* inline_comments: the file given to generate_inline_comments
    found_issues,  \* inline_comments: the issues given to generate_inline_comments
    inline_comments,   \* inline_comments: the comments generate_inline_comments returned
    reviews,       \* webhook_server: for each thread, what its _process_pr_sync returned
    tree,          \* code_analysis: the syntax tree ast.parse returned in _run_ast_analysis
    ast_result,    \* code_analysis: the mapping _run_ast_analysis returned for it
    memory,   \* feedback_generation: the list objects before and after generate_comprehensive_feedback
    webhook,   \* webhook_server: the secret, the last GitHub request, its response and the threads started
    cli    \* main / webhook_server: one review from the fetch to its return

scoreVars == <<all_issues, summary>>
patchVars == <<self, patch, parse_pc, pos, current_line, line_mapping, earlier>>
scanVars == <<scanned, scan_result>>
vars == <<mode, all_issues, summary,
          self, patch, parse_pc, pos, current_line, line_mapping, earlier,
          scanned, scan_result, frames, disk,
          score, risk_level, analysis_results, review, recommendations,
          file_data, found_issues, inline_comments, reviews, tree, ast_result, memory, webhook, cli>>
analyzeVars == <<frames, disk>>
riskVars == <<score, risk_level>>
reviewVars == <<analysis_results, review>>
inlineVars == <<file_data, found_issues, inline_comments>>
reportVars == <<riskVars, reviewVars, recommendations, inlineVars>>
serverVars == <<reviews>>
astVars == <<tree, ast_result>>
memoryVars == <<memory>>
webhookVars == <<webhook>>
cliVars == <<cli>>

(***************************************************************************)
(* Bounds of the model.                                                    *)
(***************************************************************************)
MaxIssues == 8          \* issues per category of an aggregate mapping
MaxPatchLen == 2        \* lines of an enumerated patch (longer ones are listed)
MaxFragments == 2       \* pieces of a scanned file text
MaxOutput == 2          \* lines of a linter's output
MaxRiskScore == 200     \* numerator of a banded risk score
MaxDivisor == 2         \* denominator of a banded risk score
MaxFiles == 3           \* files of a reviewed change set
MaxReviewIssues == 4    \* issues of a reviewed change set, all files together
MaxAggregateIssues == 3 \* issues of an aggregate mapping that gets recommendations
MaxNesting == 7          \* compound statements around the innermost body
MaxBoolOps == 2          \* boolean expressions of the innermost body
MaxInlineIssues == 2    \* issues of a file that gets inline comments

(***************************************************************************)
(* Small helpers.                                                          *)
(***************************************************************************)
Min(a, b) == IF a <= b THEN a ELSE b
Max(a, b) == IF a >= b THEN a ELSE b

(***************************************************************************)
(* Text: a string is a sequence of one-character strings.                  *)
(***************************************************************************)
Digits == {"0", "1", "2", "3", "4", "5", "6", "7", "8", "9"}

DigitValue(c) ==
    CASE c = "0" -> 0 [] c = "1" -> 1 [] c = "2" -> 2 [] c = "3" -> 3 [] c = "4" -> 4
      [] c = "5" -> 5 [] c = "6" -> 6 [] c = "7" -> 7 [] c = "8" -> 8 [] c = "9" -> 9

\* str.startswith(prefix)
StartsWith(s, prefix) ==
    /\ Len(s) >= Len(prefix)
    /\ SubSeq(s, 1, Len(prefix)) = prefix

\* str.split('\n'): the pieces between the newlines, at least one piece
RECURSIVE SplitFrom(_, _, _)
SplitFrom(text, i, piece) ==
    IF i > Len(text) THEN <<piece>>
    ELSE IF text[i] = "\n" THEN <<piece>> \o SplitFrom(text, i + 1, <<>>)
    ELSE SplitFrom(text, i + 1, Append(piece, text[i]))

SplitLines(text) == SplitFrom(text, 1, <<>>)

\* '\n'.join(lines)
RECURSIVE JoinLines(_)
JoinLines(lines) ==
    IF Len(lines) = 0 THEN <<>>
    ELSE IF Len(lines) = 1 THEN lines[1]
    ELSE lines[1] \o <<"\n">> \o JoinLines(Tail(lines))

\* the end of the run of digits that starts at s[i]: the greedy \d+
RECURSIVE DigitsEnd(_, _)
DigitsEnd(s, i) ==
    IF i + 1 <= Len(s) /\ s[i + 1] \in Digits THEN DigitsEnd(s, i + 1) ELSE i

\* int() of the digits s[i..j]
RECURSIVE IntOf(_, _, _)
IntOf(s, i, j) ==
    IF j < i THEN 0 ELSE (IntOf(s, i, j - 1) * 10) + DigitValue(s[j])

(***************************************************************************)
(* inline_comments.py: the diff line mapper.                               *)
(***************************************************************************)
NoMatch == -1

\* re.search(r'\+(\d+)', line): int(match.group(1)) of the leftmost '+' that a
\* digit follows, NoMatch when there is none
PlusNumber(line) ==
    LET starts == {i \in 1..(Len(line) - 1) : line[i] = "+" /\ line[i + 1] \in Digits}
    IN  IF starts = {} THEN NoMatch
        ELSE LET i == CHOOSE m \in starts : \A n \in starts : m <= n
             IN  IntOf(line, i + 1, DigitsEnd(line, i + 1))

\* line_mapping[key] = text
Store(mapping, key, text) ==
    [k \in (DOMAIN mapping) \cup {key} |-> IF k = key THEN text ELSE mapping[k]]

\* line[1:]
DropFirst(line) == SubSeq(line, 2, Len(line))

\* A mutant of parse_line: a hunk header without '+<number>' restarts the counter at 0.
parse_line_restart(line, frame) ==
    IF StartsWith(line, <<"@", "@">>)
    THEN IF PlusNumber(line) # NoMatch
         THEN [frame EXCEPT !.current_line = PlusNumber(line)]
         ELSE [frame EXCEPT !.current_line = 0]
    ELSE IF StartsWith(line, <<"+">>) /\ ~StartsWith(line, <<"+", "+", "+">>)
    THEN [line_mapping |-> Store(frame.line_mapping, frame.current_line, DropFirst(line)),
          current_line |-> frame.current_line + 1]
    ELSE IF ~StartsWith(line, <<"-">>)
    THEN [frame EXCEPT !.current_line = frame.current_line + 1]
    ELSE frame

\* A mutant of parse_line: a removed line advances the counter too.
parse_line_removed_counts(line, frame) ==
    IF StartsWith(line, <<"@", "@">>)
    THEN IF PlusNumber(line) # NoMatch
         THEN [frame EXCEPT !.current_line = PlusNumber(line)]
         ELSE frame
    ELSE IF StartsWith(line, <<"+">>) /\ ~StartsWith(line, <<"+", "+", "+">>)
    THEN [line_mapping |-> Store(frame.line_mapping, frame.current_line, DropFirst(line)),
          current_line |-> frame.current_line + 1]
    ELSE [frame EXCEPT !.current_line = frame.current_line + 1]

\* A mutant of parse_line: a context line gets a mapping entry too.
parse_line_context(line, frame) ==
    IF StartsWith(line, <<"@", "@">>)
    THEN IF PlusNumber(line) # NoMatch
         THEN [frame EXCEPT !.current_line = PlusNumber(line)]
         ELSE frame
    ELSE IF StartsWith(line, <<"+">>) /\ ~StartsWith(line, <<"+", "+", "+">>)
    THEN [line_mapping |-> Store(frame.line_mapping, frame.current_line, DropFirst(line)),
          current_line |-> frame.current_line + 1]
    ELSE IF ~StartsWith(line, <<"-">>)
    THEN [line_mapping |-> Store(frame.line_mapping, frame.current_line, DropFirst(line)),
          current_line |-> frame.current_line + 1]
    ELSE frame

\* The body of the for loop of _parse_patch_line_numbers for one line: the new
\* values of the locals line_mapping and current_line.
parse_line(line, frame) ==
    IF StartsWith(line, <<"@", "@">>)
    THEN IF PlusNumber(line) # NoMatch
         THEN [frame EXCEPT !.current_line = PlusNumber(line)]
         ELSE frame
    ELSE IF StartsWith(line, <<"+">>) /\ ~StartsWith(line, <<"+", "+", "+">>)
    THEN [line_mapping |-> Store(frame.line_mapping, frame.current_line, DropFirst(line)),
          current_line |-> frame.current_line + 1]
    ELSE IF ~StartsWith(line, <<"-">>)
    THEN [frame EXCEPT !.current_line = frame.current_line + 1]
    ELSE frame

\* A mutant of new_frame: the counter is kept from the previous call (as if it
\* were an attribute of the generator instead of a local).
new_frame_stale == [line_mapping |-> <<>>, current_line |-> current_line]

\* The locals of _parse_patch_line_numbers at its start: line_mapping = {},
\* current_line = 0.
new_frame == [line_mapping |-> <<>>, current_line |-> 0]

\* patch_lines = file_data.get('patch', '').split('\n')
patch_lines == SplitLines(patch)

\* The lines the enumerated patches are made of.
HunkHeader == <<"@", "@", " ", "-", "8", ",", "2", " ", "+", "1", "2", ",", "3", " ", "@", "@">>
HeaderNoPlus == <<"@", "@", " ", "-", "8", ",", "2", " ", "@", "@">>
AddedLineA == <<"+", "l", "i", "n", "e", " ", "A">>
AddedLineB == <<"+", "l", "i", "n", "e", " ", "B">>
ContextLine == <<" ", "c", "o", "n", "t", "e", "x", "t">>
RemovedLine == <<"-", "o", "l", "d">>
PlusPlusPlusLine == <<"+", "+", "+", " ", "b">>
EmptyLine == <<>>

Lines == {HunkHeader, HeaderNoPlus, AddedLineA, ContextLine, RemovedLine,
          PlusPlusPlusLine, EmptyLine}

\* the patch of the scenario: '@@ -1,3 +1,4 @@', '+line A', ' context', '-old', '+line B'
ExampleHeader == <<"@", "@", " ", "-", "1", ",", "3", " ", "+", "1", ",", "4", " ", "@", "@">>
ExamplePatch ==
    JoinLines(<<ExampleHeader, AddedLineA, ContextLine, RemovedLine, AddedLineB>>)

\* two hunks, the second with a header that has no '+<number>'
TwoHunkPatch ==
    JoinLines(<<HunkHeader, AddedLineA, ContextLine, HeaderNoPlus, AddedLineB>>)

\* two hunks, each with its start number: lines 1.. and lines 12..
TwoStartsPatch ==
    JoinLines(<<ExampleHeader, AddedLineA, RemovedLine, HunkHeader, ContextLine, AddedLineB>>)

PatchesOf(lines) == {JoinLines(ls) : ls \in UNION {[1..n -> lines] : n \in 1..MaxPatchLen}}

\* The patch texts of the model; the empty patch '' is JoinLines(<<EmptyLine>>).
Patches == PatchesOf(Lines) \cup {ExamplePatch, TwoHunkPatch, TwoStartsPatch}

\* The patch texts that are parsed repeatedly, on either generator.
RepeatedPatches ==
    PatchesOf({HunkHeader, HeaderNoPlus, AddedLineA, ContextLine}) \cup {<<>>}

Generators == {"g1", "g2"}

None == "None"

\* generate_inline_comments has not returned yet
NotCalled == [returned |-> FALSE, comments |-> <<>>]

\* nothing has been asked of the feedback generator or the comment generator
ReportIdle ==
    /\ score = [num |-> 0, den |-> 1]
    /\ risk_level = None
    /\ analysis_results = <<>>
    /\ review = None
    /\ recommendations = None
    /\ file_data = None
    /\ found_issues = None
    /\ inline_comments = NotCalled

\* generate_inline_comments, lines 10 to 13: the patch is split and
\* _parse_patch_line_numbers is entered with fresh locals.
CallParse(generator, text) ==
    /\ parse_pc \in {"idle", "returned"}
    /\ self' = generator
    /\ patch' = text
    /\ line_mapping' = new_frame.line_mapping
    /\ current_line' = new_frame.current_line
    /\ pos' = 1
    /\ parse_pc' = "loop"
    /\ UNCHANGED <<mode, cliVars, webhookVars, memoryVars, serverVars, astVars, reportVars, earlier, scoreVars, scanVars, analyzeVars>>

\* one iteration of `for line in patch_lines`
ParseLine ==
    /\ parse_pc = "loop"
    /\ pos <= Len(patch_lines)
    /\ LET frame == parse_line(patch_lines[pos],
                               [line_mapping |-> line_mapping, current_line |-> current_line])
       IN  /\ line_mapping' = frame.line_mapping
           /\ current_line' = frame.current_line
    /\ pos' = pos + 1
    /\ UNCHANGED <<mode, cliVars, webhookVars, memoryVars, serverVars, astVars, reportVars, self, patch, parse_pc, earlier, scoreVars, scanVars, analyzeVars>>

\* return line_mapping
ParseReturn ==
    /\ parse_pc = "loop"
    /\ pos > Len(patch_lines)
    /\ parse_pc' = "returned"
    /\ UNCHANGED <<mode, cliVars, webhookVars, memoryVars, serverVars, astVars, reportVars, self, patch, pos, current_line, line_mapping, earlier, scoreVars, scanVars, analyzeVars>>

\* The caller keeps the mapping a call returned, to compare it with a later one.
Remember ==
    /\ parse_pc = "returned"
    /\ earlier' = {[patch |-> patch, self |-> self, line_mapping |-> line_mapping]}
    /\ UNCHANGED <<mode, cliVars, webhookVars, memoryVars, serverVars, astVars, reportVars, self, patch, parse_pc, pos, current_line, line_mapping, scoreVars, scanVars, analyzeVars>>

PatchIdle ==
    /\ self = None
    /\ patch = <<>>
    /\ parse_pc = "idle"
    /\ pos = 1
    /\ current_line = 0
    /\ line_mapping = <<>>
    /\ earlier = {}

(***************************************************************************)
(* More text helpers.                                                      *)
(***************************************************************************)
\* what \s matches, and what str.strip() removes
Whitespace == {" ", "\t", "\n", "\r", "\f"}

UpperCase == <<"A", "B", "C", "D", "E", "F", "G", "H", "I", "J", "K", "L", "M",
               "N", "O", "P", "Q", "R", "S", "T", "U", "V", "W", "X", "Y", "Z">>
LowerCase == <<"a", "b", "c", "d", "e", "f", "g", "h", "i", "j", "k", "l", "m",
               "n", "o", "p", "q", "r", "s", "t", "u", "v", "w", "x", "y", "z">>

\* the case folding of re.IGNORECASE, for one character
LowerChar(c) ==
    IF \E i \in 1..26 : UpperCase[i] = c
    THEN LowerCase[CHOOSE i \in 1..26 : UpperCase[i] = c]
    ELSE c

\* the literal `lit` (lower case) is in `text` at position i, whatever the case
LiteralAt(text, i, lit) ==
    /\ i >= 1
    /\ i + Len(lit) - 1 <= Len(text)
    /\ \A k \in 1..Len(lit) : LowerChar(text[i + k - 1]) = lit[k]

\* the first position at or after i that holds no whitespace (the greedy \s*)
RECURSIVE SkipWhitespace(_, _)
SkipWhitespace(text, i) ==
    IF i <= Len(text) /\ text[i] \in Whitespace THEN SkipWhitespace(text, i + 1) ELSE i

(***************************************************************************)
(* code_analysis.py: the security pattern scanner.                         *)
(***************************************************************************)
\* The patterns of security_patterns, in the order of the dict.  A pattern is
\* a literal, then (kind "call") \s*\( , or (kind "input") \s*\([^)]*\) , or
\* (kind "literal") nothing more: pickle\.loads? matches where pickle.load does.
security_patterns == <<
    [kind |-> "call", literal |-> <<"e", "v", "a", "l">>,
     message |->
        <<"A", "v", "o", "i", "d", " ", "u", "s", "i", "n", "g", " ", "e", "v", "a", "l", "(", ")", " ", "-", " ", "s", "e", "c", "u", "r", "i", "t", "y", " ", "r", "i", "s", "k">>],
    [kind |-> "call", literal |-> <<"e", "x", "e", "c">>,
     message |->
        <<"A", "v", "o", "i", "d", " ", "u", "s", "i", "n", "g", " ", "e", "x", "e", "c", "(", ")", " ", "-", " ", "s", "e", "c", "u", "r", "i", "t", "y", " ", "r", "i", "s", "k">>],
    [kind |-> "call", literal |-> <<"_", "_", "i", "m", "p", "o", "r", "t", "_", "_">>,
     message |->
        <<"D", "y", "n", "a", "m", "i", "c", " ", "i", "m", "p", "o", "r", "t", "s", " ", "c", "a", "n", " ", "b", "e", " ", "s", "e", "c", "u", "r", "i", "t", "y", " ", "r", "i", "s", "k">>],
    [kind |-> "literal", literal |-> <<"p", "i", "c", "k", "l", "e", ".", "l", "o", "a", "d">>,
     message |->
        <<"P", "i", "c", "k", "l", "e", " ", "d", "e", "s", "e", "r", "i", "a", "l", "i", "z", "a", "t", "i", "o", "n", " ", "c", "a", "n", " ", "b", "e", " ", "u", "n", "s", "a", "f", "e">>],
    [kind |-> "input", literal |-> <<"i", "n", "p", "u", "t">>,
     message |->
        <<"C", "o", "n", "s", "i", "d", "e", "r", " ", "v", "a", "l", "i", "d", "a", "t", "i", "n", "g", " ", "u", "s", "e", "r", " ", "i", "n", "p", "u", "t">>],
    [kind |-> "call", literal |-> <<"o", "s", ".", "s", "y", "s", "t", "e", "m">>,
     message |->
        <<"o", "s", ".", "s", "y", "s", "t", "e", "m", "(", ")", " ", "c", "a", "n", " ", "b", "e", " ", "s", "e", "c", "u", "r", "i", "t", "y", " ", "r", "i", "s", "k", " ", "-", " ", "u", "s", "e", " ", "s", "u", "b", "p", "r", "o", "c", "e", "s", "s">>],
    [kind |-> "literal", literal |-> <<"s", "h", "e", "l", "l", "=", "t", "r", "u", "e">>,
     message |->
        <<"s", "u", "b", "p", "r", "o", "c", "e", "s", "s", " ", "w", "i", "t", "h", " ", "s", "h", "e", "l", "l", "=", "T", "r", "u", "e", " ", "c", "a", "n", " ", "b", "e", " ", "d", "a", "n", "g", "e", "r", "o", "u", "s">>] >>

\* The positions of `text` where a match of the pattern starts.
MatchStarts(text, pattern) ==
    {i \in 1..Len(text) :
        /\ LiteralAt(text, i, pattern.literal)
        /\ LET j == SkipWhitespace(text, i + Len(pattern.literal))
           IN  CASE pattern.kind = "literal" -> TRUE
                 [] pattern.kind = "call" -> j <= Len(text) /\ text[j] = "("
                 [] pattern.kind = "input" ->
                        /\ j <= Len(text) /\ text[j] = "("
                        /\ \E k \in (j + 1)..Len(text) : text[k] = ")"}

\* A mutant of pattern_issues: one issue for every occurrence (re.findall).
pattern_issues_per_match(text, pattern) ==
    [k \in 1..Cardinality(MatchStarts(text, pattern)) |-> pattern.message]

\* if re.search(pattern, file_content, re.IGNORECASE): issues['security'].append(message)
pattern_issues(text, pattern) ==
    IF MatchStarts(text, pattern) # {} THEN <<pattern.message>> ELSE <<>>

RECURSIVE security_issues_from(_, _)
security_issues_from(text, k) ==
    IF k > Len(security_patterns) THEN <<>>
    ELSE pattern_issues(text, security_patterns[k]) \o security_issues_from(text, k + 1)

\* _run_security_analysis: the returned mapping
run_security_analysis(text) == [security |-> security_issues_from(text, 1)]

\* The pieces the scanned texts are made of.
Fragments == {
    <<"e", "v", "a", "l", "(">>,
    <<"E", "V", "A", "L", " ", "(">>,
    <<"e", "v", "a", "l", "u", "a", "t", "e">>,
    <<"e", "x", "e", "c", "\n", "(">>,
    <<"_", "_", "i", "m", "p", "o", "r", "t", "_", "_", "(">>,
    <<"p", "i", "c", "k", "l", "e", ".", "l", "o", "a", "d">>,
    <<"i", "n", "p", "u", "t", "(", "x", ")">>,
    <<"i", "n", "p", "u", "t", "(">>,
    <<"o", "s", ".", "s", "y", "s", "t", "e", "m", "(">>,
    <<"s", "h", "e", "l", "l", "=", "T", "r", "u", "e">>,
    <<"x", "=", "1", "\n">>}

RECURSIVE Concat(_)
Concat(pieces) == IF Len(pieces) = 0 THEN <<>> ELSE pieces[1] \o Concat(Tail(pieces))

\* The file texts given to the scanner.
ScannedTexts == {Concat(ps) : ps \in UNION {[1..n -> Fragments] : n \in 0..MaxFragments}}

Unscanned == [security |-> <<"unscanned">>]

\* A call of _run_security_analysis(file_content).
ScanCall(text) ==
    /\ mode = "security"
    /\ scanned = <<>>
    /\ scanned' = <<text>>
    /\ scan_result' = run_security_analysis(text)
    /\ UNCHANGED <<mode, cliVars, webhookVars, memoryVars, serverVars, astVars, reportVars, scoreVars, patchVars, analyzeVars>>

ScanIdle ==
    /\ scanned = <<>>
    /\ scan_result = Unscanned

(***************************************************************************)
(* code_analysis.py: the normalisation of the linters' output.             *)
(***************************************************************************)
\* str.strip()
RECURSIVE StripLeft(_)
StripLeft(s) ==
    IF Len(s) > 0 /\ s[1] \in Whitespace THEN StripLeft(Tail(s)) ELSE s

RECURSIVE StripRight(_)
StripRight(s) ==
    IF Len(s) > 0 /\ s[Len(s)] \in Whitespace THEN StripRight(SubSeq(s, 1, Len(s) - 1)) ELSE s

Strip(s) == StripRight(StripLeft(s))

\* sub in s
Contains(s, sub) ==
    \E i \in 1..(Len(s) - Len(sub) + 1) : SubSeq(s, i, i + Len(sub) - 1) = sub

\* str.endswith(suffix)
EndsWith(s, suffix) ==
    /\ Len(s) >= Len(suffix)
    /\ SubSeq(s, Len(s) - Len(suffix) + 1, Len(s)) = suffix

\* str.splitlines(), for texts whose only line break is '\n': the lines, with no
\* empty last piece after a final line break
PySplitLines(text) ==
    LET pieces == SplitLines(text)
    IN  IF pieces[Len(pieces)] = <<>> THEN SubSeq(pieces, 1, Len(pieces) - 1) ELSE pieces

\* the text a producer prints for these lines: each line and a line break
RECURSIVE PrintLines(_)
PrintLines(lines) ==
    IF Len(lines) = 0 THEN <<>> ELSE lines[1] \o <<"\n">> \o PrintLines(Tail(lines))

NoFinding == [category |-> "none", message |-> <<>>]

\* the category of a pylint code: C -> standards, R -> structure, E, W, F -> bugs
pylint_category(code) ==
    IF code[1] = "C" THEN "standards"
    ELSE IF code[1] = "R" THEN "structure"
    ELSE IF code[1] \in {"E", "W", "F"} THEN "bugs"
    ELSE "none"

\* the codes an output line of pylint must contain to be looked at
PylintMarkers == {<<"C", "0">>, <<"R", "0">>, <<"W", "0">>, <<"E", "0">>, <<"F", "0">>}

\* re.search(r'([CRWEF]\d{4}):\s*(.+)', line): where the leftmost match starts
PylintMatchStarts(line) ==
    {i \in 1..(Len(line) - 6) :
        /\ line[i] \in {"C", "R", "W", "E", "F"}
        /\ \A d \in 1..4 : line[i + d] \in Digits
        /\ line[i + 5] = ":"}

\* The body of the loop over pylint_output.splitlines() for one line: the
\* issue it appends, if any.
pylint_line_finding(line) ==
    IF Strip(line) # <<>> /\ (\E marker \in PylintMarkers : Contains(line, marker))
    THEN LET starts == PylintMatchStarts(line)
         IN  IF starts # {}
             THEN LET i == CHOOSE m \in starts : \A n \in starts : m <= n
                      code == SubSeq(line, i, i + 4)
                      message == Strip(SubSeq(line, i + 6, Len(line)))
                  IN  [category |-> pylint_category(code),
                       message |-> code \o <<":", " ">> \o message]
             ELSE NoFinding
    ELSE NoFinding

\* the category of a flake8 code: E, F -> bugs, W -> standards
flake8_category(code) ==
    IF code[1] \in {"E", "F"} THEN "bugs"
    ELSE IF code[1] = "W" THEN "standards"
    ELSE "none"

\* re.search(r'([EWF]\d{3})\s+(.+)', line): where the leftmost match starts
Flake8MatchStarts(line) ==
    {i \in 1..(Len(line) - 5) :
        /\ line[i] \in {"E", "W", "F"}
        /\ \A d \in 1..3 : line[i + d] \in Digits
        /\ line[i + 4] \in Whitespace}

\* The body of the loop over flake8_output.splitlines() for one line.
flake8_line_finding(line) ==
    IF Contains(line, <<":">>) /\ (\E c \in {"E", "W", "F"} : Contains(line, <<c>>))
    THEN LET starts == Flake8MatchStarts(line)
         IN  IF starts # {}
             THEN LET i == CHOOSE m \in starts : \A n \in starts : m <= n
                      error_code == SubSeq(line, i, i + 3)
                      error_desc == Strip(SubSeq(line, i + 5, Len(line)))
                  IN  [category |-> flake8_category(error_code),
                       message |-> error_code \o <<":", " ">> \o error_desc]
             ELSE NoFinding
    ELSE NoFinding

\* error.strip().split(' ', 1)
SplitOnce(s) ==
    LET spaces == {i \in 1..Len(s) : s[i] = " "}
    IN  IF spaces = {} THEN <<s>>
        ELSE LET i == CHOOSE m \in spaces : \A n \in spaces : m <= n
             IN  <<SubSeq(s, 1, i - 1), SubSeq(s, i + 1, Len(s))>>

\* The body of the loop over the statistics of flake8's legacy API for one
\* entry ('<count> <code> <message>'): the code is searched in the first word.
flake8_stat_finding(error) ==
    LET parts == SplitOnce(Strip(error))
    IN  IF Len(parts) >= 2
        THEN LET count_and_code == parts[1]
                 starts == {i \in 1..(Len(count_and_code) - 1) :
                               /\ count_and_code[i] \in {"E", "W", "F"}
                               /\ count_and_code[i + 1] \in Digits}
             IN  IF starts # {}
                 THEN LET i == CHOOSE m \in starts : \A n \in starts : m <= n
                          code == SubSeq(count_and_code, i, DigitsEnd(count_and_code, i + 1))
                      IN  [category |-> flake8_category(code),
                           message |-> code \o <<":", " ">> \o parts[2]]
                 ELSE NoFinding
        ELSE NoFinding

\* issues[category].append(message), for a finding
AddFinding(issues, finding) ==
    IF finding.category \in DOMAIN issues
    THEN [issues EXCEPT ![finding.category] = Append(@, finding.message)]
    ELSE issues

RECURSIVE pylint_findings(_, _)
pylint_findings(lines, issues) ==
    IF Len(lines) = 0 THEN issues
    ELSE pylint_findings(Tail(lines), AddFinding(issues, pylint_line_finding(lines[1])))

RECURSIVE flake8_findings(_, _)
flake8_findings(lines, issues) ==
    IF Len(lines) = 0 THEN issues
    ELSE flake8_findings(Tail(lines), AddFinding(issues, flake8_line_finding(lines[1])))

RECURSIVE flake8_stat_findings(_, _)
flake8_stat_findings(stats, issues) ==
    IF Len(stats) = 0 THEN issues
    ELSE flake8_stat_findings(Tail(stats), AddFinding(issues, flake8_stat_finding(stats[1])))

\* the synthesized issues
SkippingMessage == <<"S", "k", "i", "p", "p", "i", "n", "g", ":", " ", "N", "o", "t", " ", "a", " ", "P", "y", "t", "h", "o", "n", " ", "f", "i", "l", "e", " ", "o", "r", " ", "e", "m", "p", "t", "y", " ", "c", "o", "n", "t", "e", "n", "t">>
PylintErrorPrefix == <<"P", "y", "l", "i", "n", "t", " ", "e", "r", "r", "o", "r", ":", " ">>
Flake8MissingMessage == <<"F", "l", "a", "k", "e", "8", " ", "n", "o", "t", " ", "a", "v", "a", "i", "l", "a", "b", "l", "e", " ", "-", " ", "i", "n", "s", "t", "a", "l", "l", " ", "w", "i", "t", "h", ":", " ", "p", "i", "p", " ", "i", "n", "s", "t", "a", "l", "l", " ", "f", "l", "a", "k", "e", "8">>
AnalysisErrorPrefix == <<"A", "n", "a", "l", "y", "s", "i", "s", " ", "e", "r", "r", "o", "r", ":", " ">>
ComplexityMessage == <<"F", "u", "n", "c", "t", "i", "o", "n", " ", "'", "f", "'", " ", "h", "a", "s", " ", "h", "i", "g", "h", " ", "c", "o", "m", "p", "l", "e", "x", "i", "t", "y", ":", " ", "1", "1", " ", "(", "t", "h", "r", "e", "s", "h", "o", "l", "d", ":", " ", "1", "0", ")">>
NestingMessage == <<"D", "e", "e", "p", "l", "y", " ", "n", "e", "s", "t", "e", "d", " ", "c", "o", "d", "e", " ", "d", "e", "t", "e", "c", "t", "e", "d", ":", " ", "5", " ", "l", "e", "v", "e", "l", "s">>

\* str(e) of the exceptions of the model
CrashText == <<"b", "o", "o", "m">>
EncodeErrorText == <<"c", "o", "d", "e", "c", " ", "c", "a", "n", "'", "t", " ", "e", "n", "c", "o", "d", "e">>
KeyErrorText == <<"'", "b", "u", "g", "s", "'">>

\* _run_pylint_analysis: the returned mapping, for what Run(...) did
run_pylint_analysis(outcome) ==
    LET issues == [structure |-> <<>>, standards |-> <<>>, bugs |-> <<>>]
    IN  IF outcome.raises
        THEN [issues EXCEPT !["bugs"] = Append(@, PylintErrorPrefix \o CrashText)]
        ELSE pylint_findings(PySplitLines(outcome.output), issues)

(***************************************************************************)
(* code_analysis.py: analyze_file.                                         *)
(***************************************************************************)
Threads == {"t1", "t2"}

\* the keys of `issues` in analyze_file, in the order of the dict
CategoryOrder == <<"structure", "standards", "bugs", "performance", "security", "complexity">>

IssueKeys == {CategoryOrder[i] : i \in 1..Len(CategoryOrder)}

\* A mutant of empty_issues: the 'performance' key is missing.
empty_issues_without_performance == [c \in IssueKeys \ {"performance"} |-> <<>>]

\* issues = {'structure': [], ..., 'complexity': []}
empty_issues == [c \in IssueKeys |-> <<>>]

\* a local that is not bound yet: a mapping without keys
Unbound == <<>>

\* The file contents of the model: the text, whether the temporary file's
\* encoding can encode it, and what ast.parse and the walk over the tree find.
EmptyContent == [text |-> <<>>, encodable |-> TRUE, tree |-> "clean"]
CleanContent == [text |-> <<"x", "=", "1", "\n">>, encodable |-> TRUE, tree |-> "clean"]
EvalContent == [text |-> <<"e", "v", "a", "l", "(", "x", ")", "\n">>, encodable |-> TRUE, tree |-> "clean"]
NestedContent == [text |-> <<"d", "e", "f", " ", "f", "(", ")", ":", "\n">>, encodable |-> TRUE, tree |-> "complex"]
BrokenContent == [text |-> <<"d", "e", "f", "(", "\n">>, encodable |-> TRUE, tree |-> "syntax_error"]
\* a text with a character the encoding of the temporary file cannot encode (a
\* lone surrogate under UTF-8, any non-Latin character under cp1252)
UnencodableContent ==
    [text |-> <<"x", "=", "'", "U+D800", "'">>, encodable |-> FALSE, tree |-> "clean"]

\* a text that is not source text but decodes and encodes as UTF-8: it holds a
\* NUL character, which ast.parse rejects (SyntaxError, or ValueError before
\* Python 3.11.4; both handlers of _run_ast_analysis do the same)
BinaryContent ==
    [text |-> <<"x", "=", "1", "\n", "NUL">>, encodable |-> TRUE, tree |-> "syntax_error"]

Contents == {EmptyContent, CleanContent, EvalContent, NestedContent, BrokenContent,
             UnencodableContent, BinaryContent}

Filenames == {<<"t", ".", "p", "y">>, <<"t", ".", "t", "x", "t">>}

\* the names tempfile.NamedTemporaryFile can pick: it picks one that is not in use
TempNames == {"tmp_a.py", "tmp_b.py"}

\* The lines the linters print.
PylintLines == {
    <<"t", ".", "p", "y", ":", "1", ":", "0", ":", " ", "C", "0", "1", "1", "4", ":", " ", "d", "o", "c">>,
    <<"t", ".", "p", "y", ":", "2", ":", "0", ":", " ", "R", "0", "9", "0", "3", ":", " ", "f", "e", "w">>,
    <<"t", ".", "p", "y", ":", "3", ":", "4", ":", " ", "W", "0", "6", "1", "2", ":", " ", "u", "n", "u", "s", "e", "d">>,
    <<"t", ".", "p", "y", ":", "4", ":", "0", ":", " ", "R", "1", "7", "0", "5", ":", " ", "e", "l", "s", "e">>}

Flake8Lines == {
    <<"t", ".", "p", "y", ":", "1", ":", "2", ":", " ", "E", "2", "3", "1", " ", "w", "s">>,
    <<"t", ".", "p", "y", ":", "2", ":", "1", ":", " ", "W", "2", "9", "1", " ", "t", "r", "a", "i", "l">>,
    <<"t", ".", "p", "y", ":", "4", ":", "1", ":", " ", "C", "9", "0", "1", " ", "c", "o", "m", "p", "l", "e", "x">>}

OutputsOf(lines) == {PrintLines(ls) : ls \in UNION {[1..n -> lines] : n \in 0..MaxOutput}}

\* What Run([...], reporter=reporter, exit=False) does: it raises, or it fills
\* the reporter's output.
PylintOutcomes ==
    {[raises |-> TRUE, output |-> <<>>]}
        \cup {[raises |-> FALSE, output |-> o] : o \in OutputsOf(PylintLines)}

\* What subprocess.run([... flake8 ...], timeout=30) does: the process exits (0
\* without findings; 1 with findings on stdout, or after a crash with nothing
\* on stdout), or run raises TimeoutExpired, FileNotFoundError or another
\* OSError.
SubprocessOutcomes ==
    {[how |-> "exit", returncode |-> 0, stdout |-> <<>>]}
        \cup {[how |-> "exit", returncode |-> 1, stdout |-> o] : o \in OutputsOf(Flake8Lines)}
        \cup {[how |-> h, returncode |-> 0, stdout |-> <<>>] :
                 h \in {"timeout", "not_found", "os_error"}}

\* What the in-process flake8 does: the import fails, a call raises something
\* else, or get_statistics('') returns its '<count> <code> <message>' entries.
LegacyApiOutcomes ==
    {[how |-> "import_error", stats |-> <<>>],
     [how |-> "raises", stats |-> <<>>],
     [how |-> "stats", stats |-> <<>>],
     [how |-> "stats", stats |-> <<<<"2", " ", "E", "2", "3", "1", " ", "w", "s">>>>]}

\* The locals of a call of analyze_file, before the call.
IdleFrame ==
    [pc |-> "idle", file_content |-> EmptyContent, filename |-> <<>>,
     temp_file |-> None, temp_path |-> None, issues |-> Unbound,
     pylint_output |-> <<>>, pylint_issues |-> Unbound,
     flake8_output |-> <<>>, flake8_issues |-> Unbound,
     ast_issues |-> Unbound, security_issues |-> Unbound,
     error |-> <<>>, invoked |-> <<>>, failures |-> {}]

OffFrame == [IdleFrame EXCEPT !.pc = "off"]

\* analyze_file, lines 20 to 34: the issues mapping is created, and an empty
\* content or a name that does not end in '.py' is skipped.
AnalyzeCall(t, content, name) ==
    /\ frames[t].pc = "idle"
    /\ LET f == [frames[t] EXCEPT !.file_content = content, !.filename = name,
                                  !.issues = empty_issues]
       IN  IF content.text = <<>> \/ ~EndsWith(name, <<".", "p", "y">>)
           THEN frames' = [frames EXCEPT ![t] =
                    [f EXCEPT !.pc = "returned",
                              !.issues = [f.issues EXCEPT !["bugs"] = Append(@, SkippingMessage)]]]
           ELSE frames' = [frames EXCEPT ![t] = [f EXCEPT !.pc = "tempfile"]]
    /\ UNCHANGED <<mode, cliVars, webhookVars, memoryVars, serverVars, astVars, reportVars, disk, scoreVars, patchVars, scanVars>>

\* lines 39 to 42: the temporary file is created (delete=False) and the content
\* written; temp_path is assigned after the write, so it stays None when the
\* write raises.
CreateTemp(t) ==
    /\ frames[t].pc = "tempfile"
    /\ \E name \in TempNames \ disk :
        /\ disk' = disk \cup {name}
        /\ IF frames[t].file_content.encodable
           THEN frames' = [frames EXCEPT ![t] =
                    [@ EXCEPT !.temp_file = name, !.temp_path = name, !.pc = "pylint"]]
           ELSE frames' = [frames EXCEPT ![t] =
                    [@ EXCEPT !.temp_file = name, !.error = EncodeErrorText, !.pc = "except"]]
    /\ UNCHANGED <<mode, cliVars, webhookVars, memoryVars, serverVars, astVars, reportVars, scoreVars, patchVars, scanVars>>

\* line 45: pylint_issues = self._run_pylint_analysis(temp_path)
RunPylint(t) ==
    /\ frames[t].pc = "pylint"
    /\ \E outcome \in PylintOutcomes :
        frames' = [frames EXCEPT ![t] =
            [@ EXCEPT !.pylint_output = outcome.output,
                      !.pylint_issues = run_pylint_analysis(outcome),
                      !.invoked = Append(@, "pylint"),
                      !.failures = IF outcome.raises THEN @ \cup {"pylint raised"} ELSE @,
                      !.pc = "flake8"]]
    /\ UNCHANGED <<mode, cliVars, webhookVars, memoryVars, serverVars, astVars, reportVars, disk, scoreVars, patchVars, scanVars>>

\* what a flake8 process that ran to its exit adds to the failures seen
ExitFailure(outcome) ==
    IF outcome.returncode # 0 /\ outcome.stdout = <<>> THEN {"flake8 exited non-zero"} ELSE {}

\* what an exception of subprocess.run adds to the failures seen
RunFailure(outcome) ==
    CASE outcome.how = "timeout" -> {"flake8 timed out"}
      [] outcome.how = "not_found" -> {"flake8 not found"}
      [] outcome.how = "os_error" -> {"flake8 could not start"}

\* line 46, first part (lines 145 to 199): the flake8 executable is run and its
\* stdout parsed; FileNotFoundError and SubprocessError lead to the fallback
\* 'python -m flake8', any other exception to the direct import.
RunFlake8(t) ==
    /\ frames[t].pc = "flake8"
    /\ \E outcome \in SubprocessOutcomes :
        LET issues == [standards |-> <<>>, bugs |-> <<>>]
            f == [frames[t] EXCEPT !.invoked = Append(@, "flake8")]
        IN  IF outcome.how = "exit"
            THEN frames' = [frames EXCEPT ![t] =
                    [f EXCEPT !.flake8_output = outcome.stdout,
                              !.flake8_issues =
                                  flake8_findings(PySplitLines(outcome.stdout), issues),
                              !.failures = @ \cup ExitFailure(outcome),
                              !.pc = "ast"]]
            ELSE frames' = [frames EXCEPT ![t] =
                    [f EXCEPT !.flake8_issues = issues,
                              !.failures = @ \cup RunFailure(outcome),
                              !.pc = IF outcome.how \in {"timeout", "not_found"}
                                     THEN "flake8_module" ELSE "flake8_import"]]
    /\ UNCHANGED <<mode, cliVars, webhookVars, memoryVars, serverVars, astVars, reportVars, disk, scoreVars, patchVars, scanVars>>

\* lines 201 to 228: the fallback 'python -m flake8'; it runs inside the
\* handler of the first attempt, so whatever it raises goes to the outer
\* handler, the direct import.
RunFlake8Module(t) ==
    /\ frames[t].pc = "flake8_module"
    /\ \E outcome \in SubprocessOutcomes :
        LET f == [frames[t] EXCEPT !.invoked = Append(@, "python -m flake8")]
        IN  IF outcome.how = "exit"
            THEN frames' = [frames EXCEPT ![t] =
                    [f EXCEPT !.flake8_output = outcome.stdout,
                              !.flake8_issues =
                                  flake8_findings(PySplitLines(outcome.stdout), f.flake8_issues),
                              !.failures = @ \cup ExitFailure(outcome),
                              !.pc = "ast"]]
            ELSE frames' = [frames EXCEPT ![t] =
                    [f EXCEPT !.failures = @ \cup RunFailure(outcome),
                              !.pc = "flake8_import"]]
    /\ UNCHANGED <<mode, cliVars, webhookVars, memoryVars, serverVars, astVars, reportVars, disk, scoreVars, patchVars, scanVars>>

\* lines 230 to 259: the final fallback, flake8.api.legacy in process; only an
\* ImportError is handled here, anything else leaves _run_flake8_analysis and
\* reaches the handler of analyze_file.
RunFlake8Import(t) ==
    /\ frames[t].pc = "flake8_import"
    /\ \E outcome \in LegacyApiOutcomes :
        LET f == [frames[t] EXCEPT !.invoked = Append(@, "flake8.api.legacy")]
        IN  CASE outcome.how = "import_error" ->
                    frames' = [frames EXCEPT ![t] =
                        [f EXCEPT !.flake8_issues =
                                      [f.flake8_issues EXCEPT !["bugs"] =
                                          Append(@, Flake8MissingMessage)],
                                  !.failures = @ \cup {"flake8 not importable"},
                                  !.pc = "ast"]]
              [] outcome.how = "stats" ->
                    frames' = [frames EXCEPT ![t] =
                        [f EXCEPT !.flake8_output = PrintLines(outcome.stats),
                                  !.flake8_issues =
                                      flake8_stat_findings(outcome.stats, f.flake8_issues),
                                  !.pc = "ast"]]
              [] outcome.how = "raises" ->
                    frames' = [frames EXCEPT ![t] =
                        [f EXCEPT !.flake8_issues = Unbound,
                                  !.failures = @ \cup {"flake8 raised"},
                                  !.error = CrashText,
                                  !.pc = "except"]]
    /\ UNCHANGED <<mode, cliVars, webhookVars, memoryVars, serverVars, astVars, reportVars, disk, scoreVars, patchVars, scanVars>>

\* _run_ast_analysis: what it raises, if anything, and the mapping it returns.
\* The mapping it builds has the keys 'complexity' and 'structure' only, so
\* issues['bugs'].append in the SyntaxError handler raises KeyError('bugs'),
\* which leaves the method.
run_ast_analysis(content) ==
    LET issues == [complexity |-> <<>>, structure |-> <<>>]
    IN  CASE content.tree = "clean" -> [raises |-> None, issues |-> issues]
          [] content.tree = "complex" ->
                [raises |-> None,
                 issues |-> [complexity |-> <<ComplexityMessage>>,
                             structure |-> <<NestingMessage>>]]
          [] content.tree = "syntax_error" ->
                IF "bugs" \in DOMAIN issues
                THEN [raises |-> None, issues |-> [issues EXCEPT !["bugs"] = Append(@, CrashText)]]
                ELSE [raises |-> "KeyError", issues |-> issues]

\* line 47: ast_issues = self._run_ast_analysis(file_content, filename)
RunAst(t) ==
    /\ frames[t].pc = "ast"
    /\ LET result == run_ast_analysis(frames[t].file_content)
           f == [frames[t] EXCEPT !.invoked = Append(@, "ast")]
       IN  IF result.raises = "KeyError"
           THEN frames' = [frames EXCEPT ![t] =
                    [f EXCEPT !.error = KeyErrorText, !.pc = "except"]]
           ELSE frames' = [frames EXCEPT ![t] =
                    [f EXCEPT !.ast_issues = result.issues, !.pc = "security"]]
    /\ UNCHANGED <<mode, cliVars, webhookVars, memoryVars, serverVars, astVars, reportVars, disk, scoreVars, patchVars, scanVars>>

\* line 48: security_issues = self._run_security_analysis(file_content)
RunSecurity(t) ==
    /\ frames[t].pc = "security"
    /\ frames' = [frames EXCEPT ![t] =
            [@ EXCEPT !.security_issues = run_security_analysis(frames[t].file_content.text),
                      !.invoked = Append(@, "security"),
                      !.pc = "merge"]]
    /\ UNCHANGED <<mode, cliVars, webhookVars, memoryVars, serverVars, astVars, reportVars, disk, scoreVars, patchVars, scanVars>>

\* issues[category].extend(found[category]) if category in found
Extend(items, found, category) ==
    IF category \in DOMAIN found THEN items \o found[category] ELSE items

\* lines 51 to 59: the four mappings are merged into issues, key by key
merge_issues(issues, pylint, flake8, ast, security) ==
    [category \in DOMAIN issues |->
        Extend(Extend(Extend(Extend(issues[category], pylint, category),
                             flake8, category), ast, category), security, category)]

Merge(t) ==
    /\ frames[t].pc = "merge"
    /\ frames' = [frames EXCEPT ![t] =
            [@ EXCEPT !.issues = merge_issues(@, frames[t].pylint_issues,
                                              frames[t].flake8_issues, frames[t].ast_issues,
                                              frames[t].security_issues),
                      !.pc = "finally"]]
    /\ UNCHANGED <<mode, cliVars, webhookVars, memoryVars, serverVars, astVars, reportVars, disk, scoreVars, patchVars, scanVars>>

\* lines 69 to 71: except Exception as e: issues['bugs'].append("Analysis error: ...")
Except(t) ==
    /\ frames[t].pc = "except"
    /\ frames' = [frames EXCEPT ![t] =
            [@ EXCEPT !.issues = [@ EXCEPT !["bugs"] =
                                     Append(@, AnalysisErrorPrefix \o frames[t].error)],
                      !.pc = "finally"]]
    /\ UNCHANGED <<mode, cliVars, webhookVars, memoryVars, serverVars, astVars, reportVars, disk, scoreVars, patchVars, scanVars>>

\* A mutant of Finally: the cleanup removes every temporary file there is.
Finally_sweeping(t) ==
    /\ frames[t].pc = "finally"
    /\ disk' = IF frames[t].temp_path # None /\ frames[t].temp_path \in disk THEN {} ELSE disk
    /\ frames' = [frames EXCEPT ![t] = [@ EXCEPT !.pc = "returned"]]
    /\ UNCHANGED <<mode, cliVars, webhookVars, memoryVars, serverVars, astVars, reportVars, scoreVars, patchVars, scanVars>>

\* lines 72 to 78: the file is removed if temp_path is set and exists, and the
\* issues are returned.
Finally(t) ==
    /\ frames[t].pc = "finally"
    /\ disk' = IF frames[t].temp_path # None /\ frames[t].temp_path \in disk
               THEN disk \ {frames[t].temp_path}
               ELSE disk
    /\ frames' = [frames EXCEPT ![t] = [@ EXCEPT !.pc = "returned"]]
    /\ UNCHANGED <<mode, cliVars, webhookVars, memoryVars, serverVars, astVars, reportVars, scoreVars, patchVars, scanVars>>

AnalyzeIdle ==
    /\ frames = [t \in Threads |-> OffFrame]
    /\ disk = {}

\* _process_pr_sync has not returned yet
NotReviewed == [returned |-> FALSE, result |-> <<>>]

\* no review has been started
ServerIdle == reviews = [t \in Threads |-> NotReviewed]

\* no text has been parsed
AstIdle ==
    /\ tree = [kind |-> "Module", name |-> <<>>, values |-> 0, children |-> <<>>]
    /\ ast_result = [complexity |-> <<>>, structure |-> <<>>]

\* generate_comprehensive_feedback has been given nothing
MemoryIdle == memory = [results |-> <<>>, before |-> <<>>, heap |-> <<>>, all_issues |-> <<>>]

\* no request has reached /webhook/github
WebhookIdle ==
    webhook = [secret |-> "", handled |-> 0,
               request |-> [header |-> [present |-> FALSE, value |-> <<>>], event |-> "None", body |-> ""],
               response |-> [status |-> 0, json |-> ""], threads |-> <<>>]

\* neither run_cli_mode nor _process_pr_sync has been called
CliIdle ==
    cli = [entry |-> "", post_comments |-> FALSE, pc |-> "off", pr_data |-> <<>>, k |-> 0,
           counts |-> <<>>, total_issues |-> 0, report |-> FALSE, posts |-> <<>>,
           raised |-> FALSE,
           result |-> [kind |-> "", exit_code |-> 0, total_issues |-> 0, files_analyzed |-> 0]]

(***************************************************************************)
(* feedback_generation.py: the quality score.                              *)
(***************************************************************************)
Categories == {"structure", "standards", "bugs", "performance", "security", "complexity"}

\* FeedbackGeneration.__init__: self.scoring_weights
scoring_weights ==
    [bugs |-> 8, security |-> 20, standards |-> 4,
     structure |-> 8, complexity |-> 12, performance |-> 8]

\* the iteration order of self.scoring_weights.items()
WeightOrder == <<"bugs", "security", "standards", "structure", "complexity", "performance">>

PenaltyCap == 40        \* min(penalty, 40)
MinScore == 5           \* max(5, ...)
BaseScore == 100        \* base_score = 100

\* A mutant of progressive_penalty: the second band forgets the first three issues.
progressive_penalty_band2_only(issue_count, weight) ==
    IF issue_count <= 3 THEN issue_count * weight * 5
    ELSE IF issue_count <= 7 THEN (issue_count - 3) * weight * 8
    ELSE (3 * weight * 5) + (4 * weight * 8) + ((issue_count - 7) * weight * 10)

\* The progressive penalty of one category, in tenths of a point
\* (the factors 0.5, 0.8 and 1.0 are 5, 8 and 10 tenths).
progressive_penalty(issue_count, weight) ==
    IF issue_count <= 3 THEN issue_count * weight * 5
    ELSE IF issue_count <= 7 THEN (3 * weight * 5) + ((issue_count - 3) * weight * 8)
    ELSE (3 * weight * 5) + (4 * weight * 8) + ((issue_count - 7) * weight * 10)

\* mapping.get(key, [])
Get(mapping, key) == IF key \in DOMAIN mapping THEN mapping[key] ELSE <<>>

\* A mutant of category_penalty: the cap of 40 points is forgotten.
category_penalty_uncapped(issues, category) ==
    LET issue_count == Len(Get(issues, category))
        weight == scoring_weights[category]
    IN  IF issue_count > 0 THEN progressive_penalty(issue_count, weight) ELSE 0

\* What one category adds to total_penalty, in tenths: nothing when it is empty
\* (all_issues.get(category, []) makes a missing key an empty list).
category_penalty(issues, category) ==
    LET issue_count == Len(Get(issues, category))
        weight == scoring_weights[category]
    IN  IF issue_count > 0
        THEN Min(progressive_penalty(issue_count, weight), PenaltyCap * 10)
        ELSE 0

RECURSIVE total_penalty_from(_, _)
total_penalty_from(issues, k) ==
    IF k > Len(WeightOrder) THEN 0
    ELSE category_penalty(issues, WeightOrder[k]) + total_penalty_from(issues, k + 1)

\* A mutant of floor_score: the minimum score of 5 is forgotten.
floor_score_unfloored(total_penalty) == (BaseScore * 10) - total_penalty

\* weighted_score = max(5, base_score - total_penalty), in tenths
floor_score(total_penalty) == Max(MinScore * 10, (BaseScore * 10) - total_penalty)

\* _generate_summary: the weighted score in tenths and the reported
\* int(weighted_score) (truncation toward zero of a value that is >= 0 here,
\* computed as Python's int() does for either sign).
generate_summary(issues) ==
    LET weighted_score == floor_score(total_penalty_from(issues, 1))
    IN  [weighted_score |-> weighted_score,
         quality_score  |-> IF weighted_score >= 0
                            THEN weighted_score \div 10
                            ELSE -((-weighted_score) \div 10)]

NoIssues == [c \in Categories |-> <<>>]

\* generate_comprehensive_feedback on a change set that has one more issue of
\* `category` than the last one: the aggregate is extended and summarised.
Summarize(category) ==
    /\ mode = "score"
    /\ Len(all_issues[category]) < MaxIssues
    /\ all_issues' = [all_issues EXCEPT ![category] = Append(@, "issue")]
    /\ summary' = generate_summary(all_issues')
    /\ UNCHANGED <<mode, cliVars, webhookVars, memoryVars, serverVars, astVars, reportVars, patchVars, scanVars, analyzeVars>>

ScoreIdle ==
    /\ all_issues = NoIssues
    /\ summary = generate_summary(NoIssues)

InitScore ==
    /\ mode = "score"
    /\ ScoreIdle
    /\ PatchIdle
    /\ ScanIdle
    /\ CliIdle
    /\ WebhookIdle
    /\ MemoryIdle
    /\ ServerIdle
    /\ AstIdle
    /\ AnalyzeIdle
    /\ ReportIdle

NextScore == \E category \in Categories : Summarize(category)

SpecScore == InitScore /\ [][NextScore]_vars

InitPatch ==
    /\ mode = "patch"
    /\ ScoreIdle
    /\ PatchIdle
    /\ ScanIdle
    /\ CliIdle
    /\ WebhookIdle
    /\ MemoryIdle
    /\ ServerIdle
    /\ AstIdle
    /\ AnalyzeIdle
    /\ ReportIdle

NextPatch ==
    \/ \E generator \in Generators, text \in Patches : CallParse(generator, text)
    \/ ParseLine
    \/ ParseReturn

SpecPatch == InitPatch /\ [][NextPatch]_vars

InitPure ==
    /\ mode = "pure"
    /\ ScoreIdle
    /\ PatchIdle
    /\ ScanIdle
    /\ CliIdle
    /\ WebhookIdle
    /\ MemoryIdle
    /\ ServerIdle
    /\ AstIdle
    /\ AnalyzeIdle
    /\ ReportIdle

NextPure ==
    \/ \E generator \in Generators, text \in RepeatedPatches : CallParse(generator, text)
    \/ ParseLine
    \/ ParseReturn
    \/ Remember

SpecPure == InitPure /\ [][NextPure]_vars

InitSecurity ==
    /\ mode = "security"
    /\ ScoreIdle
    /\ PatchIdle
    /\ ScanIdle
    /\ CliIdle
    /\ WebhookIdle
    /\ MemoryIdle
    /\ ServerIdle
    /\ AstIdle
    /\ AnalyzeIdle
    /\ ReportIdle

NextSecurity == \E text \in ScannedTexts : ScanCall(text)

SpecSecurity == InitSecurity /\ [][NextSecurity]_vars

\* One call of analyze_file, on one thread.
InitAnalyze ==
    /\ mode = "analyze"
    /\ ScoreIdle
    /\ PatchIdle
    /\ ScanIdle
    /\ CliIdle
    /\ WebhookIdle
    /\ MemoryIdle
    /\ ServerIdle
    /\ AstIdle
    /\ frames = [t \in Threads |-> IF t = "t1" THEN IdleFrame ELSE OffFrame]
    /\ disk = {}
    /\ ReportIdle

NextAnalyze ==
    \E t \in Threads :
        \/ \E content \in Contents, name \in Filenames : AnalyzeCall(t, content, name)
        \/ CreateTemp(t)
        \/ RunPylint(t)
        \/ RunFlake8(t)
        \/ RunFlake8Module(t)
        \/ RunFlake8Import(t)
        \/ RunAst(t)
        \/ RunSecurity(t)
        \/ Merge(t)
        \/ Except(t)
        \/ Finally(t)

SpecAnalyze == InitAnalyze /\ [][NextAnalyze]_vars

(***************************************************************************)
(* feedback_generation.py: risk scores and risk levels.                    *)
(***************************************************************************)
\* A risk score: the int a file risk is, or the float risk_score / file_count,
\* kept as the fraction num / den.
Fraction(num, den) == [num |-> num, den |-> den]

\* score >= threshold
AtLeast(s, threshold) == s.num >= threshold * s.den

\* A mutant of _get_risk_level: the lower bounds are exclusive.
get_risk_level_exclusive(s) ==
    IF s.num > 80 * s.den THEN "HIGH"
    ELSE IF s.num > 40 * s.den THEN "MEDIUM"
    ELSE IF s.num > 15 * s.den THEN "LOW"
    ELSE "MINIMAL"

\* _get_risk_level (the returned labels without their icons)
get_risk_level(s) ==
    IF AtLeast(s, 80) THEN "HIGH"
    ELSE IF AtLeast(s, 40) THEN "MEDIUM"
    ELSE IF AtLeast(s, 15) THEN "LOW"
    ELSE "MINIMAL"

Scores == {Fraction(n, d) : n \in 0..MaxRiskScore, d \in 1..MaxDivisor}

\* a call of _get_risk_level(score)
GetRiskLevel ==
    /\ mode = "risk"
    /\ risk_level = None
    /\ risk_level' = get_risk_level(score)
    /\ UNCHANGED <<mode, cliVars, webhookVars, memoryVars, serverVars, astVars, score, scoreVars, patchVars, scanVars, analyzeVars,
                   reviewVars, recommendations, inlineVars>>

InitRisk ==
    /\ mode = "risk"
    /\ ScoreIdle
    /\ PatchIdle
    /\ ScanIdle
    /\ CliIdle
    /\ WebhookIdle
    /\ MemoryIdle
    /\ ServerIdle
    /\ AstIdle
    /\ AnalyzeIdle
    /\ score \in Scores
    /\ risk_level = None
    /\ analysis_results = <<>>
    /\ review = None
    /\ recommendations = None
    /\ file_data = None
    /\ found_issues = None
    /\ inline_comments = NotCalled

NextRisk == GetRiskLevel

SpecRisk == InitRisk /\ [][NextRisk]_vars

(***************************************************************************)
(* feedback_generation.py: the review of a change set.                     *)
(***************************************************************************)
\* A mutant of category_weight: every category gets the default weight.
category_weight_default(category) == 5

\* self.scoring_weights.get(category, 5)
category_weight(category) ==
    IF category \in DOMAIN scoring_weights THEN scoring_weights[category] ELSE 5

\* _calculate_file_risk, over the keys not yet visited
RECURSIVE file_risk_over(_, _)
file_risk_over(issues, keys) ==
    IF keys = {} THEN 0
    ELSE LET category == CHOOSE c \in keys : TRUE
         IN  (Len(issues[category]) * category_weight(category))
                 + file_risk_over(issues, keys \ {category})

calculate_file_risk(issues) == file_risk_over(issues, DOMAIN issues)

\* sum(len(items) for items in issues.values())
RECURSIVE count_over(_, _)
count_over(issues, keys) ==
    IF keys = {} THEN 0
    ELSE LET category == CHOOSE c \in keys : TRUE
         IN  Len(issues[category]) + count_over(issues, keys \ {category})

\* _generate_file_report: the issue count, the risk score and the risk level
\* of a file; a file without issues returns 0, 0 and shows no level.
generate_file_report(result) ==
    LET file_issues == count_over(result.issues, DOMAIN result.issues)
        risk_score == calculate_file_risk(result.issues)
    IN  IF file_issues = 0
        THEN [file_issues |-> 0, risk_score |-> 0, risk_level |-> None]
        ELSE [file_issues |-> file_issues, risk_score |-> risk_score,
              risk_level |-> get_risk_level(Fraction(risk_score, 1))]

\* the aggregation of lines 34 to 37: all_issues after the results from k on
RECURSIVE aggregate(_, _, _)
aggregate(results, k, found) ==
    IF k > Len(results) THEN found
    ELSE LET issues == results[k].issues
         IN  aggregate(results, k + 1,
                       [c \in DOMAIN found \cup DOMAIN issues |->
                           Get(found, c) \o Get(issues, c)])

RECURSIVE sum_reports(_, _, _)
sum_reports(reports, k, field) ==
    IF k > Len(reports) THEN 0 ELSE reports[k][field] + sum_reports(reports, k + 1, field)

\* A mutant of average_risk: the total is not divided by the file count.
average_risk_undivided(risk_score, file_count) == Fraction(risk_score, 1)

\* avg_risk = risk_score / max(file_count, 1)
average_risk(risk_score, file_count) == Fraction(risk_score, Max(file_count, 1))

\* generate_comprehensive_feedback: the numbers of the report
generate_comprehensive_feedback(results) ==
    LET reports == [k \in 1..Len(results) |-> generate_file_report(results[k])]
        total_issues == sum_reports(reports, 1, "file_issues")
        risk_score == sum_reports(reports, 1, "risk_score")
        found == aggregate(results, 1, <<>>)
        file_count == Len(results)
        scored == generate_summary(found)
    IN  [file_reports |-> reports,
         total_issues |-> total_issues,
         risk_score |-> risk_score,
         all_issues |-> found,
         file_count |-> file_count,
         weighted_score |-> scored.weighted_score,
         quality_score |-> scored.quality_score,
         overall_risk |-> get_risk_level(average_risk(risk_score, file_count))]

\* the result of analyze_file for a file without findings
CleanResult == [filename |-> <<"t", ".", "p", "y">>, issues |-> empty_issues]

\* The review of the change set that has one more file, without findings yet.
ReviewWithFile ==
    /\ mode = "review"
    /\ Len(analysis_results) < MaxFiles
    /\ analysis_results' = Append(analysis_results, CleanResult)
    /\ review' = generate_comprehensive_feedback(analysis_results')
    /\ UNCHANGED <<mode, cliVars, webhookVars, memoryVars, serverVars, astVars, scoreVars, patchVars, scanVars, analyzeVars,
                   riskVars, recommendations, inlineVars>>

\* The review of the change set whose last file has one more issue.
ReviewWithIssue(category) ==
    /\ mode = "review"
    /\ Len(analysis_results) > 0
    /\ review.total_issues < MaxReviewIssues
    /\ analysis_results' =
           [analysis_results EXCEPT ![Len(analysis_results)].issues[category] =
               Append(@, "issue")]
    /\ review' = generate_comprehensive_feedback(analysis_results')
    /\ UNCHANGED <<mode, cliVars, webhookVars, memoryVars, serverVars, astVars, scoreVars, patchVars, scanVars, analyzeVars,
                   riskVars, recommendations, inlineVars>>

InitReview ==
    /\ mode = "review"
    /\ ScoreIdle
    /\ PatchIdle
    /\ ScanIdle
    /\ CliIdle
    /\ WebhookIdle
    /\ MemoryIdle
    /\ ServerIdle
    /\ AstIdle
    /\ AnalyzeIdle
    /\ score = [num |-> 0, den |-> 1]
    /\ risk_level = None
    /\ analysis_results = <<>>
    /\ review = generate_comprehensive_feedback(<<>>)
    /\ recommendations = None
    /\ file_data = None
    /\ found_issues = None
    /\ inline_comments = NotCalled

NextReview ==
    \/ ReviewWithFile
    \/ \E category \in IssueKeys : ReviewWithIssue(category)

SpecReview == InitReview /\ [][NextReview]_vars

(***************************************************************************)
(* feedback_generation.py: recommendations.                                *)
(***************************************************************************)
\* str.lower()
Lower(text) == [i \in 1..Len(text) |-> LowerChar(text[i])]

\* any(word in str(item).lower() for item in items)
AnyMentions(items, word) == \E k \in 1..Len(items) : Contains(Lower(items[k]), word)

\* the suggestions of _get_priority_suggestions, without their icons
SecuritySuggestion == <<"*", "*", "C", "R", "I", "T", "I", "C", "A", "L", "*", "*", ":", " ", "F", "i", "x", " ", "s", "e", "c", "u", "r", "i", "t", "y", " ", "v", "u", "l", "n", "e", "r", "a", "b", "i", "l", "i", "t", "i", "e", "s", " ", "i", "m", "m", "e", "d", "i", "a", "t", "e", "l", "y">>
UnreachableSuggestion == <<"R", "e", "m", "o", "v", "e", " ", "u", "n", "r", "e", "a", "c", "h", "a", "b", "l", "e", " ", "c", "o", "d", "e", " ", "t", "h", "a", "t", " ", "w", "i", "l", "l", " ", "n", "e", "v", "e", "r", " ", "e", "x", "e", "c", "u", "t", "e">>
UnusedSuggestion == <<"C", "l", "e", "a", "n", " ", "u", "p", " ", "u", "n", "u", "s", "e", "d", " ", "v", "a", "r", "i", "a", "b", "l", "e", "s", " ", "t", "o", " ", "i", "m", "p", "r", "o", "v", "e", " ", "c", "o", "d", "e", " ", "c", "l", "a", "r", "i", "t", "y">>
ConstantSuggestion == <<"F", "i", "x", " ", "c", "o", "n", "d", "i", "t", "i", "o", "n", "a", "l", " ", "s", "t", "a", "t", "e", "m", "e", "n", "t", "s", " ", "w", "i", "t", "h", " ", "c", "o", "n", "s", "t", "a", "n", "t", " ", "v", "a", "l", "u", "e", "s">>
DocstringSuggestion == <<"A", "d", "d", " ", "d", "o", "c", "s", "t", "r", "i", "n", "g", "s", " ", "t", "o", " ", "i", "m", "p", "r", "o", "v", "e", " ", "c", "o", "d", "e", " ", "d", "o", "c", "u", "m", "e", "n", "t", "a", "t", "i", "o", "n">>
WhitespaceSuggestion == <<"F", "i", "x", " ", "s", "p", "a", "c", "i", "n", "g", " ", "a", "n", "d", " ", "f", "o", "r", "m", "a", "t", "t", "i", "n", "g", " ", "i", "s", "s", "u", "e", "s", " ", "(", "P", "E", "P", " ", "8", ")">>
StructureSuggestion == <<"I", "m", "p", "r", "o", "v", "e", " ", "c", "o", "d", "e", " ", "s", "t", "r", "u", "c", "t", "u", "r", "e", " ", "a", "n", "d", " ", "c", "l", "a", "s", "s", " ", "d", "e", "s", "i", "g", "n">>
ComplexitySuggestion == <<"R", "e", "f", "a", "c", "t", "o", "r", " ", "c", "o", "m", "p", "l", "e", "x", " ", "f", "u", "n", "c", "t", "i", "o", "n", "s", " ", "t", "o", " ", "i", "m", "p", "r", "o", "v", "e", " ", "m", "a", "i", "n", "t", "a", "i", "n", "a", "b", "i", "l", "i", "t", "y">>

\* A mutant of keyword_rule: one suggestion for every item that mentions the word.
RECURSIVE keyword_rule_each(_, _, _)
keyword_rule_each(items, word, suggestion) ==
    IF Len(items) = 0 THEN <<>>
    ELSE (IF Contains(Lower(items[1]), word) THEN <<suggestion>> ELSE <<>>)
             \o keyword_rule_each(Tail(items), word, suggestion)

\* if any(word in str(item).lower() for item in items): suggestions.append(suggestion)
keyword_rule(items, word, suggestion) ==
    IF AnyMentions(items, word) THEN <<suggestion>> ELSE <<>>

\* if all_issues.get(category): suggestions.append(suggestion)
category_rule(issues, category, suggestion) ==
    IF Get(issues, category) # <<>> THEN <<suggestion>> ELSE <<>>

\* _get_priority_suggestions
get_priority_suggestions(issues) ==
    LET bugs == Get(issues, "bugs")
        standards == Get(issues, "standards")
    IN  category_rule(issues, "security", SecuritySuggestion)
            \o keyword_rule(bugs, <<"u", "n", "r", "e", "a", "c", "h", "a", "b", "l", "e">>, UnreachableSuggestion)
            \o keyword_rule(bugs, <<"u", "n", "u", "s", "e", "d">>, UnusedSuggestion)
            \o keyword_rule(bugs, <<"c", "o", "n", "s", "t", "a", "n", "t">>, ConstantSuggestion)
            \o keyword_rule(standards, <<"d", "o", "c", "s", "t", "r", "i", "n", "g">>, DocstringSuggestion)
            \o keyword_rule(standards, <<"w", "h", "i", "t", "e", "s", "p", "a", "c", "e">>, WhitespaceSuggestion)
            \o category_rule(issues, "structure", StructureSuggestion)
            \o category_rule(issues, "complexity", ComplexitySuggestion)

\* the references of _get_learning_resources, by their titles
SecurityReference == "Security Best Practices"
StyleReference == "Python Style Guide (PEP 8)"
RefactoringReference == "Clean Code Principles"
DocstringReference == "Python Docstring Guide"
GenericReference == "General Python Best Practices"

\* _get_learning_resources: the references listed, in order
get_learning_resources(issues) ==
    LET listed ==
            (IF Get(issues, "security") # <<>> THEN <<SecurityReference>> ELSE <<>>)
                \o (IF Get(issues, "standards") # <<>> THEN <<StyleReference>> ELSE <<>>)
                \o (IF Get(issues, "complexity") # <<>> \/ Get(issues, "structure") # <<>>
                    THEN <<RefactoringReference>> ELSE <<>>)
                \o (IF AnyMentions(Get(issues, "standards"), <<"d", "o", "c", "s", "t", "r", "i", "n", "g">>)
                    THEN <<DocstringReference>> ELSE <<>>)
    IN  IF listed = <<>> THEN <<GenericReference>> ELSE listed

\* any(word in suggestion.lower() for word in words)
MentionsAny(suggestion, words) == \E word \in words : Contains(Lower(suggestion), word)

HighWords == {<<"s", "e", "c", "u", "r", "i", "t", "y">>, <<"c", "r", "i", "t", "i", "c", "a", "l">>, <<"e", "r", "r", "o", "r">>}
MediumWords == {<<"u", "n", "u", "s", "e", "d">>, <<"u", "n", "r", "e", "a", "c", "h", "a", "b", "l", "e">>, <<"c", "o", "m", "p", "l", "e", "x", "i", "t", "y">>}

\* A mutant of priority_of: the words of the medium group are not looked for.
priority_of_without_medium(suggestion) ==
    IF MentionsAny(suggestion, HighWords) THEN "high" ELSE "low"

\* the priority group of a suggestion (lines 159 to 164)
priority_of(suggestion) ==
    IF MentionsAny(suggestion, HighWords) THEN "high"
    ELSE IF MentionsAny(suggestion, MediumWords) THEN "medium"
    ELSE "low"

\* the suggestions of one priority group, in order
RECURSIVE with_priority(_, _)
with_priority(suggestions, priority) ==
    IF Len(suggestions) = 0 THEN <<>>
    ELSE (IF priority_of(suggestions[1]) = priority THEN <<suggestions[1]>> ELSE <<>>)
             \o with_priority(Tail(suggestions), priority)

\* _generate_smart_recommendations: the parts of the returned text.  Without
\* suggestions it returns after the 'code looks good' line (149 to 151), and
\* the learning resources (183) are not part of the text.
generate_smart_recommendations(issues) ==
    LET priority_suggestions == get_priority_suggestions(issues)
    IN  IF priority_suggestions = <<>>
        THEN [looks_good |-> TRUE, priority_suggestions |-> <<>>,
              high_priority |-> <<>>, medium_priority |-> <<>>, low_priority |-> <<>>,
              has_resources |-> FALSE, resources |-> <<>>]
        ELSE [looks_good |-> FALSE, priority_suggestions |-> priority_suggestions,
              high_priority |-> with_priority(priority_suggestions, "high"),
              medium_priority |-> with_priority(priority_suggestions, "medium"),
              low_priority |-> with_priority(priority_suggestions, "low"),
              has_resources |-> TRUE, resources |-> get_learning_resources(issues)]

\* The issue texts the producers give the aggregate mapping.
UnusedIssue == <<"W", "0", "6", "1", "2", ":", " ", "U", "n", "u", "s", "e", "d", " ", "v", "a", "r", "i", "a", "b", "l", "e", " ", "'", "x", "'">>
UnreachableIssue == <<"W", "0", "1", "0", "1", ":", " ", "U", "n", "r", "e", "a", "c", "h", "a", "b", "l", "e", " ", "c", "o", "d", "e">>
ConstantIssue == <<"W", "0", "1", "2", "5", ":", " ", "U", "s", "i", "n", "g", " ", "a", " ", "c", "o", "n", "d", "i", "t", "i", "o", "n", "a", "l", " ", "s", "t", "a", "t", "e", "m", "e", "n", "t", " ", "w", "i", "t", "h", " ", "a", " ", "c", "o", "n", "s", "t", "a", "n", "t", " ", "v", "a", "l", "u", "e">>
UndefinedIssue == <<"E", "0", "6", "0", "2", ":", " ", "U", "n", "d", "e", "f", "i", "n", "e", "d", " ", "v", "a", "r", "i", "a", "b", "l", "e", " ", "'", "y", "'">>
DocstringIssue == <<"C", "0", "1", "1", "4", ":", " ", "M", "i", "s", "s", "i", "n", "g", " ", "m", "o", "d", "u", "l", "e", " ", "d", "o", "c", "s", "t", "r", "i", "n", "g">>
WhitespaceIssue == <<"W", "2", "9", "1", ":", " ", "t", "r", "a", "i", "l", "i", "n", "g", " ", "w", "h", "i", "t", "e", "s", "p", "a", "c", "e">>
LineLengthIssue == <<"C", "0", "3", "0", "1", ":", " ", "L", "i", "n", "e", " ", "t", "o", "o", " ", "l", "o", "n", "g", " ", "(", "1", "3", "0", "/", "1", "2", "0", ")">>

IssueTexts ==
    [bugs |-> {UnusedIssue, UnreachableIssue, ConstantIssue, UndefinedIssue},
     standards |-> {DocstringIssue, WhitespaceIssue, LineLengthIssue},
     security |-> {security_patterns[1].message},
     structure |-> {NestingMessage},
     complexity |-> {ComplexityMessage},
     performance |-> {}]

\* generate_comprehensive_feedback, lines 40 and 41, on the change set whose
\* aggregate has one more issue: the summary and the recommendations.
Recommend(category, issue) ==
    /\ mode = "recommend"
    /\ count_over(all_issues, DOMAIN all_issues) < MaxAggregateIssues
    /\ all_issues' = [all_issues EXCEPT ![category] = Append(@, issue)]
    /\ summary' = generate_summary(all_issues')
    /\ recommendations' = generate_smart_recommendations(all_issues')
    /\ UNCHANGED <<mode, cliVars, webhookVars, memoryVars, serverVars, astVars, patchVars, scanVars, analyzeVars, riskVars, reviewVars, inlineVars>>

InitRecommend ==
    /\ mode = "recommend"
    /\ ScoreIdle
    /\ PatchIdle
    /\ ScanIdle
    /\ CliIdle
    /\ WebhookIdle
    /\ MemoryIdle
    /\ ServerIdle
    /\ AstIdle
    /\ AnalyzeIdle
    /\ score = [num |-> 0, den |-> 1]
    /\ risk_level = None
    /\ analysis_results = <<>>
    /\ review = None
    /\ recommendations = generate_smart_recommendations(NoIssues)
    /\ file_data = None
    /\ found_issues = None
    /\ inline_comments = NotCalled

NextRecommend ==
    \E category \in Categories : \E issue \in IssueTexts[category] : Recommend(category, issue)

SpecRecommend == InitRecommend /\ [][NextRecommend]_vars

(***************************************************************************)
(* inline_comments.py: the inline comments of a file.                      *)
(***************************************************************************)
\* _parse_patch_line_numbers as a function: the loop body applied to the
\* lines from k on
RECURSIVE parse_from(_, _, _)
parse_from(lines, k, frame) ==
    IF k > Len(lines) THEN frame.line_mapping
    ELSE parse_from(lines, k + 1, parse_line(lines[k], frame))

parse_patch_line_numbers(lines) ==
    parse_from(lines, 1, [line_mapping |-> <<>>, current_line |-> 0])

\* _extract_line_number: re.search(r':(\d+):', issue), the int of the leftmost
\* match, NoMatch for the None of no match
extract_line_number(issue) ==
    LET starts == {i \in 1..(Len(issue) - 2) :
                      /\ issue[i] = ":"
                      /\ issue[i + 1] \in Digits
                      /\ DigitsEnd(issue, i + 1) < Len(issue)
                      /\ issue[DigitsEnd(issue, i + 1) + 1] = ":"}
    IN  IF starts = {} THEN NoMatch
        ELSE LET i == CHOOSE m \in starts : \A n \in starts : m <= n
             IN  IntOf(issue, i + 1, DigitsEnd(issue, i + 1))

\* the codes of the table of _get_line_specific_suggestion, in its order
SuggestionCodes == <<<<"E", "2", "3", "1">>, <<"E", "2", "6", "1">>, <<"E", "3", "0", "2">>, <<"E", "3", "0", "5">>, <<"E", "7", "3", "1">>, <<"F", "8", "4", "1">>, <<"C", "0", "1", "1", "4">>, <<"C", "0", "1", "1", "6">>, <<"W", "0", "6", "1", "2">>, <<"W", "0", "1", "0", "1">>, <<"C", "3", "0", "0", "1">>, <<"W", "0", "1", "2", "5">>, <<"C", "0", "1", "1", "5">>, <<"R", "0", "9", "0", "3">>>>

\* _get_line_specific_suggestion: the code whose suggestion is returned (the
\* first of the table that occurs in the issue), "generic" for the default text
get_line_specific_suggestion(issue) ==
    LET found == {k \in 1..Len(SuggestionCodes) : Contains(issue, SuggestionCodes[k])}
    IN  IF found = {} THEN "generic"
        ELSE SuggestionCodes[CHOOSE k \in found : \A n \in found : k <= n]

\* _generate_line_specific_comment: the comment, if any; line_mapping is a
\* parameter that the method does not use.
generate_line_specific_comment(issue, category, content_lines, mapping) ==
    LET line_num == extract_line_number(issue)
    IN  IF line_num # NoMatch /\ line_num # 0 /\ line_num <= Len(content_lines)
        THEN <<[line |-> line_num, category |-> category, issue |-> issue,
                code |-> Strip(content_lines[line_num]),
                suggestion |-> get_line_specific_suggestion(issue)]>>
        ELSE <<>>

RECURSIVE comments_of_list(_, _, _, _)
comments_of_list(issue_list, category, content_lines, mapping) ==
    IF Len(issue_list) = 0 THEN <<>>
    ELSE generate_line_specific_comment(issue_list[1], category, content_lines, mapping)
             \o comments_of_list(Tail(issue_list), category, content_lines, mapping)

\* the loop over issues.items(), from the k-th key of the mapping on
RECURSIVE comments_from(_, _, _, _)
comments_from(issues, k, content_lines, mapping) ==
    IF k > Len(CategoryOrder) THEN <<>>
    ELSE comments_of_list(Get(issues, CategoryOrder[k]), CategoryOrder[k], content_lines, mapping)
             \o comments_from(issues, k + 1, content_lines, mapping)

\* generate_inline_comments
generate_inline_comments(data, issues) ==
    LET content_lines == SplitLines(data.content)
        mapping == parse_patch_line_numbers(SplitLines(data.patch))
    IN  comments_from(issues, 1, content_lines, mapping)

\* The files of the model: three lines of content, or none, with a patch that
\* adds lines 1 and 3, an empty patch, or a patch without a usable hunk.
ThreeLines == <<"a", " ", "=", " ", "1", "\n", "b", " ", "=", " ", "2", "\n", "c", " ", "=", " ", "3">>
MalformedPatch == JoinLines(<<HeaderNoPlus, RemovedLine>>)

Files ==
    {[content |-> c, patch |-> q] :
        c \in {ThreeLines, <<>>}, q \in {ExamplePatch, <<>>, MalformedPatch}}

\* The issue texts of the model: pylint echoes the text of a TODO comment in
\* its W0511 message, so a message can hold ':<digits>:'.
TodoAtOne == <<"W", "0", "5", "1", "1", ":", " ", "T", "O", "D", "O", " ", "0", "9", ":", "1", ":", "0", "0", " ", "(", "f", "i", "x", "m", "e", ")">>
TodoAtTwo == <<"W", "0", "5", "1", "1", ":", " ", "T", "O", "D", "O", " ", "0", "9", ":", "2", ":", "0", "0", " ", "(", "f", "i", "x", "m", "e", ")">>
TodoAtSeven == <<"W", "0", "5", "1", "1", ":", " ", "T", "O", "D", "O", " ", "0", "9", ":", "7", ":", "0", "0", " ", "(", "f", "i", "x", "m", "e", ")">>
TodoAtZero == <<"W", "0", "5", "1", "1", ":", " ", "T", "O", "D", "O", " ", "0", "9", ":", "0", ":", "0", "0", " ", "(", "f", "i", "x", "m", "e", ")">>

Findings ==
    {[category |-> "bugs", issue |-> i] :
        i \in {TodoAtOne, TodoAtTwo, TodoAtSeven, TodoAtZero, UnusedIssue}}
        \cup {[category |-> "standards", issue |-> DocstringIssue]}

\* the issues of the findings fs that belong to a category, in order
RECURSIVE issues_in(_, _)
issues_in(fs, category) ==
    IF Len(fs) = 0 THEN <<>>
    ELSE (IF fs[1].category = category THEN <<fs[1].issue>> ELSE <<>>)
             \o issues_in(Tail(fs), category)

FoundIssues ==
    {[c \in IssueKeys |-> issues_in(fs, c)] :
        fs \in UNION {[1..n -> Findings] : n \in 0..MaxInlineIssues}}

\* a call of generate_inline_comments(file_data, issues)
GenerateInlineComments ==
    /\ mode = "inline"
    /\ ~inline_comments.returned
    /\ inline_comments' =
           [returned |-> TRUE, comments |-> generate_inline_comments(file_data, found_issues)]
    /\ UNCHANGED <<mode, cliVars, webhookVars, memoryVars, serverVars, astVars, file_data, found_issues, scoreVars, patchVars, scanVars, analyzeVars,
                   riskVars, reviewVars, recommendations>>

InitInline ==
    /\ mode = "inline"
    /\ ScoreIdle
    /\ PatchIdle
    /\ ScanIdle
    /\ CliIdle
    /\ WebhookIdle
    /\ MemoryIdle
    /\ ServerIdle
    /\ AstIdle
    /\ AnalyzeIdle
    /\ score = [num |-> 0, den |-> 1]
    /\ risk_level = None
    /\ analysis_results = <<>>
    /\ review = None
    /\ recommendations = None
    /\ file_data \in Files
    /\ found_issues \in FoundIssues
    /\ inline_comments = NotCalled

NextInline == GenerateInlineComments

SpecInline == InitInline /\ [][NextInline]_vars

(***************************************************************************)
(* webhook_server.py: reviews that run at the same time.  Every webhook    *)
(* event starts a thread that runs _process_pr_sync, which creates its own *)
(* GitIntegration, CodeAnalysis, InlineCommentGenerator and                *)
(* FeedbackGeneration.                                                     *)
(***************************************************************************)
PyName == <<"t", ".", "p", "y">>

\* the patch of the file of the reviewed change set
ReviewedPatch == ExamplePatch

\* _process_pr_sync from the return of analyze_file on, for a change set of
\* one Python file: the inline comments, the totals, the report and the
\* returned mapping.
process_result(content, name, issues) ==
    LET data == [content |-> content.text, patch |-> ReviewedPatch]
        comments == generate_inline_comments(data, issues)
        file_total_issues == count_over(issues, DOMAIN issues)
        results == <<[filename |-> name, issues |-> issues,
                      inline_comments |-> comments, issue_count |-> file_total_issues]>>
    IN  [total_issues |-> file_total_issues,
         files_analyzed |-> Len(results),
         report |-> generate_comprehensive_feedback(results),
         analysis_results |-> results]

\* lines 334 to 371: analyze_file has returned; the rest of the review is
\* computed from its result and returned.
ProcessReturn(t) ==
    /\ frames[t].pc = "returned"
    /\ ~reviews[t].returned
    /\ reviews' = [reviews EXCEPT ![t] =
            [returned |-> TRUE,
             result |-> process_result(frames[t].file_content, frames[t].filename,
                                       frames[t].issues)]]
    /\ UNCHANGED <<mode, cliVars, webhookVars, memoryVars, astVars, analyzeVars, scoreVars, patchVars, scanVars, reportVars>>

\* The files and the tool runs of the concurrent reviews: each linter prints
\* nothing or one line, and flake8 is found or not.
ConcurrentContents == {EmptyContent, CleanContent, BrokenContent, UnencodableContent}

ConcurrentPylintOutputs == {<<>>, PrintLines(<<CHOOSE l \in PylintLines : Contains(l, <<"W", "0", "6", "1", "2">>)>>)}

ConcurrentFlake8Outputs == {<<>>, PrintLines(<<CHOOSE l \in Flake8Lines : Contains(l, <<"E", "2", "3", "1">>)>>)}

ConcurrentPylintOutcomes == {o \in PylintOutcomes : o.output \in ConcurrentPylintOutputs}

ConcurrentSubprocessOutcomes ==
    {o \in SubprocessOutcomes :
        o.how \in {"exit", "not_found"} /\ o.stdout \in ConcurrentFlake8Outputs}

ConcurrentLegacyApiOutcomes == {o \in LegacyApiOutcomes : o.stats = <<>>}

\* whether the tool runs a frame has seen are among these
ConcurrentRun(f) ==
    /\ f.pylint_output \in ConcurrentPylintOutputs
    /\ f.flake8_output \in ConcurrentFlake8Outputs
    /\ f.failures \cap {"flake8 timed out", "flake8 could not start"} = {}

\* Two reviews, started by two webhook events, each of one Python file
\* (_process_pr_sync skips the other files before analyze_file).
InitConcurrent ==
    /\ mode = "concurrent"
    /\ ScoreIdle
    /\ PatchIdle
    /\ ScanIdle
    /\ CliIdle
    /\ WebhookIdle
    /\ MemoryIdle
    /\ ServerIdle
    /\ AstIdle
    /\ frames = [t \in Threads |-> IdleFrame]
    /\ disk = {}
    /\ ReportIdle

NextConcurrent ==
    \E t \in Threads :
        \/ \E content \in ConcurrentContents : AnalyzeCall(t, content, PyName)
        \/ CreateTemp(t)
        \/ RunPylint(t) /\ ConcurrentRun(frames'[t])
        \/ RunFlake8(t) /\ ConcurrentRun(frames'[t])
        \/ RunFlake8Module(t) /\ ConcurrentRun(frames'[t])
        \/ RunFlake8Import(t) /\ ConcurrentRun(frames'[t])
        \/ RunAst(t)
        \/ RunSecurity(t)
        \/ Merge(t)
        \/ Except(t)
        \/ Finally(t)
        \/ ProcessReturn(t)

SpecConcurrent == InitConcurrent /\ [][NextConcurrent]_vars

(***************************************************************************)
(* code_analysis.py: the walk over the syntax tree.                        *)
(***************************************************************************)
complexity_threshold == 10      \* self.complexity_threshold
NestingThreshold == 4           \* if depth > 4

\* a node of the tree: its class, its name (of a function), the number of its
\* operands (of a boolean expression) and its child nodes, in the order of
\* ast.iter_child_nodes
Node(kind, children) == [kind |-> kind, name |-> <<>>, values |-> 0, children |-> children]

\* ast.walk: the nodes below and including those of `todo`, breadth first
RECURSIVE ast_walk(_)
ast_walk(todo) ==
    IF todo = <<>> THEN <<>>
    ELSE <<Head(todo)>> \o ast_walk(Tail(todo) \o Head(todo).children)

\* what one node adds in _calculate_complexity
complexity_of(child) ==
    IF child.kind \in {"If", "While", "For", "ExceptHandler"} THEN 1
    ELSE IF child.kind = "BoolOp" THEN child.values - 1
    ELSE 0

RECURSIVE complexity_over(_, _)
complexity_over(nodes, k) ==
    IF k > Len(nodes) THEN 0 ELSE complexity_of(nodes[k]) + complexity_over(nodes, k + 1)

\* _calculate_complexity: 1 plus what the nodes of ast.walk(node) add
calculate_complexity(node) == 1 + complexity_over(ast_walk(<<node>>), 1)

\* the classes _calculate_nesting_depth follows
NestingKinds == {"If", "For", "While", "With", "Try"}

\* _calculate_nesting_depth: the deepest chain of child nodes of these classes
RECURSIVE calculate_nesting_depth(_, _)
RECURSIVE nesting_over(_, _, _, _)
nesting_over(children, k, depth, max_depth) ==
    IF k > Len(children) THEN max_depth
    ELSE nesting_over(children, k + 1, depth,
                      IF children[k].kind \in NestingKinds
                      THEN Max(calculate_nesting_depth(children[k], depth + 1), max_depth)
                      ELSE max_depth)

calculate_nesting_depth(node, depth) == nesting_over(node.children, 1, depth, depth)

\* str() of a number that is not negative
DigitChar(d) == CHOOSE c \in Digits : DigitValue(c) = d

RECURSIVE Decimal(_)
Decimal(n) == IF n < 10 THEN <<DigitChar(n)>> ELSE Decimal(n \div 10) \o <<DigitChar(n % 10)>>

\* f"Function '{node.name}' has high complexity: {complexity} (threshold: ...)"
ComplexityIssue(name, complexity) ==
    <<"F", "u", "n", "c", "t", "i", "o", "n", " ", "'">> \o name
        \o <<"'", " ", "h", "a", "s", " ", "h", "i", "g", "h", " ", "c", "o", "m", "p", "l", "e", "x", "i", "t", "y", ":", " ">> \o Decimal(complexity)
        \o <<" ", "(", "t", "h", "r", "e", "s", "h", "o", "l", "d", ":", " ">> \o Decimal(complexity_threshold) \o <<")">>

\* f"Deeply nested code detected: {depth} levels"
NestingIssue(depth) ==
    <<"D", "e", "e", "p", "l", "y", " ", "n", "e", "s", "t", "e", "d", " ", "c", "o", "d", "e", " ", "d", "e", "t", "e", "c", "t", "e", "d", ":", " ">>
        \o Decimal(depth) \o <<" ", "l", "e", "v", "e", "l", "s">>

\* The body of the loop over ast.walk(tree) for one node, lines 273 to 285.
node_findings(node, issues) ==
    LET complexity == calculate_complexity(node)
        depth == calculate_nesting_depth(node, 0)
        found == IF node.kind = "FunctionDef" /\ complexity > complexity_threshold
                 THEN [issues EXCEPT !["complexity"] =
                          Append(@, ComplexityIssue(node.name, complexity))]
                 ELSE issues
    IN  IF node.kind \in {"If", "For", "While"} /\ depth > NestingThreshold
        THEN [found EXCEPT !["structure"] = Append(@, NestingIssue(depth))]
        ELSE found

RECURSIVE ast_findings(_, _, _)
ast_findings(nodes, k, issues) ==
    IF k > Len(nodes) THEN issues
    ELSE ast_findings(nodes, k + 1, node_findings(nodes[k], issues))

\* _run_ast_analysis for a text that parses to `root`
run_ast_analysis_on(root) ==
    ast_findings(ast_walk(<<root>>), 1, [complexity |-> <<>>, structure |-> <<>>])

\* The trees of the model.  A body that would be empty holds `pass`.
Body(children) == IF children = <<>> THEN <<Node("Pass", <<>>)>> ELSE children

\* `y = a and b and c`
BoolOpStatement ==
    Node("Assign", <<Node("Name", <<>>), [Node("BoolOp", <<Node("Name", <<>>), Node("Name", <<>>), Node("Name", <<>>)>>) EXCEPT !.values = 3]>>)

\* the compound statements that are put around a body: `if x:`, `try: ...
\* except E: pass`, `def f<n>():` and `async def f<n>():`
WrapKinds == {"If", "Try", "FunctionDef", "AsyncFunctionDef"}

\* how many compound statements are around the innermost body
RECURSIVE Height(_)
Height(children) ==
    IF \E k \in 1..Len(children) : children[k].kind \in WrapKinds
    THEN LET k == CHOOSE j \in 1..Len(children) : children[j].kind \in WrapKinds
         IN  1 + Height(children[k].children)
    ELSE 0

Wrap(kind, children) ==
    CASE kind = "If" -> Node("If", <<Node("Name", <<>>)>> \o Body(children))
      [] kind = "Try" ->
            Node("Try", Body(children) \o <<Node("ExceptHandler", <<Node("Pass", <<>>)>>)>>)
      [] kind \in {"FunctionDef", "AsyncFunctionDef"} ->
            [Node(kind, <<Node("arguments", <<>>)>> \o Body(children))
                EXCEPT !.name = <<"f">> \o Decimal(Height(children))]

EmptyModule == Node("Module", <<>>)

\* _run_ast_analysis on the text that has one more assignment of a boolean
\* expression, while it has nothing else
AddBoolOp ==
    /\ mode = "ast"
    /\ Len(tree.children) < MaxBoolOps
    /\ Height(tree.children) = 0
    /\ tree' = [tree EXCEPT !.children = Append(@, BoolOpStatement)]
    /\ ast_result' = run_ast_analysis_on(tree')
    /\ UNCHANGED <<mode, cliVars, webhookVars, memoryVars, serverVars, reportVars, scoreVars, patchVars, scanVars, analyzeVars>>

\* _run_ast_analysis on the text whose statements are put inside one more
\* compound statement
Nest(kind) ==
    /\ mode = "ast"
    /\ Height(tree.children) < MaxNesting
    /\ tree' = [tree EXCEPT !.children = <<Wrap(kind, @)>>]
    /\ ast_result' = run_ast_analysis_on(tree')
    /\ UNCHANGED <<mode, cliVars, webhookVars, memoryVars, serverVars, reportVars, scoreVars, patchVars, scanVars, analyzeVars>>

InitAst ==
    /\ mode = "ast"
    /\ ScoreIdle
    /\ PatchIdle
    /\ ScanIdle
    /\ CliIdle
    /\ WebhookIdle
    /\ MemoryIdle
    /\ ServerIdle
    /\ AnalyzeIdle
    /\ ReportIdle
    /\ tree = EmptyModule
    /\ ast_result = run_ast_analysis_on(EmptyModule)

NextAst ==
    \/ AddBoolOp
    \/ \E kind \in WrapKinds : Nest(kind)

SpecAst == InitAst /\ [][NextAst]_vars

(***************************************************************************)
(* feedback_generation.py: the lists generate_comprehensive_feedback       *)
(* shares with its caller.  A list is an object of the heap (a sequence of *)
(* lists); a mapping holds references to lists (indexes of the heap).      *)
(***************************************************************************)
\* A mutant of new_list: all_issues[category] = items
new_list_aliasing(heap, items) == [heap |-> heap, ref |-> items]

\* all_issues[category] = []: a new, empty list
new_list(heap, items) == [heap |-> Append(heap, <<>>), ref |-> Len(heap) + 1]

\* lines 34 to 37 for one category of result['issues']: the key is bound to a
\* new list if it is missing, and the list is extended by the items
aggregate_category(m, issues, category) ==
    LET bound == IF category \in DOMAIN m.all_issues
                 THEN [heap |-> m.heap, ref |-> m.all_issues[category]]
                 ELSE new_list(m.heap, issues[category])
    IN  [heap |-> [bound.heap EXCEPT ![bound.ref] = @ \o bound.heap[issues[category]]],
         all_issues |-> [c \in DOMAIN m.all_issues \cup {category} |->
                            IF c = category THEN bound.ref ELSE m.all_issues[c]]]

\* for category, items in result['issues'].items()
RECURSIVE aggregate_result(_, _, _)
aggregate_result(m, issues, k) ==
    IF k > Len(CategoryOrder) THEN m
    ELSE aggregate_result(IF CategoryOrder[k] \in DOMAIN issues
                          THEN aggregate_category(m, issues, CategoryOrder[k])
                          ELSE m,
                          issues, k + 1)

\* for result in analysis_results
RECURSIVE aggregate_results(_, _, _)
aggregate_results(m, results, k) ==
    IF k > Len(results) THEN m
    ELSE aggregate_results(aggregate_result(m, results[k], 1), results, k + 1)

\* generate_comprehensive_feedback, lines 24 to 37: what it does to the heap
\* and the all_issues it builds (the report builders only read)
feedback_on_heap(results, heap) ==
    LET m == aggregate_results([heap |-> heap, all_issues |-> <<>>], results, 1)
    IN  [results |-> results, before |-> heap, heap |-> m.heap, all_issues |-> m.all_issues]

\* the issues mapping analyze_file returns for the next file: six new lists
FreshIssues(heap) == [c \in IssueKeys |-> Len(heap) + CHOOSE k \in 1..Len(CategoryOrder) : CategoryOrder[k] = c]

RECURSIVE Repeat(_, _)
Repeat(item, n) == IF n = 0 THEN <<>> ELSE <<item>> \o Repeat(item, n - 1)

\* an issue of file k
IssueOfFile(k) == <<"i", "s", "s", "u", "e", " ">> \o Decimal(k)

\* how many issues the lists of the results hold
RECURSIVE HeapTotal(_)
HeapTotal(heap) == IF heap = <<>> THEN 0 ELSE Len(Head(heap)) + HeapTotal(Tail(heap))

\* The feedback for the change set that has one more file, without findings yet.
FeedbackWithFile ==
    /\ mode = "memory"
    /\ Len(memory.results) < MaxFiles
    /\ memory' = feedback_on_heap(Append(memory.results, FreshIssues(memory.before)),
                                  memory.before \o Repeat(<<>>, Len(CategoryOrder)))
    /\ UNCHANGED <<mode, cliVars, webhookVars, serverVars, astVars, reportVars, scoreVars, patchVars, scanVars, analyzeVars>>

\* The feedback for the change set whose last file has one more issue.
FeedbackWithIssue(category) ==
    /\ mode = "memory"
    /\ Len(memory.results) > 0
    /\ HeapTotal(memory.before) < MaxReviewIssues
    /\ LET last == Len(memory.results)
       IN  memory' = feedback_on_heap(memory.results,
                         [memory.before EXCEPT ![memory.results[last][category]] =
                             Append(@, IssueOfFile(last))])
    /\ UNCHANGED <<mode, cliVars, webhookVars, serverVars, astVars, reportVars, scoreVars, patchVars, scanVars, analyzeVars>>

InitMemory ==
    /\ mode = "memory"
    /\ ScoreIdle
    /\ PatchIdle
    /\ ScanIdle
    /\ CliIdle
    /\ WebhookIdle
    /\ ServerIdle
    /\ AstIdle
    /\ AnalyzeIdle
    /\ ReportIdle
    /\ memory = feedback_on_heap(<<>>, <<>>)

NextMemory ==
    \/ FeedbackWithFile
    \/ \E category \in IssueKeys : FeedbackWithIssue(category)

SpecMemory == InitMemory /\ [][NextMemory]_vars

(***************************************************************************)
(* webhook_server.py: the GitHub webhook.  The body of a request is the    *)
(* text that was sent; hexdigest and get_json tabulate what hmac/hashlib   *)
(* and Flask compute for the bodies and secrets of this model.             *)
(***************************************************************************)
MaxRequests == 2

ConfiguredSecret == "s3cret"
OtherSecret == "other"
\* os.getenv('GITHUB_WEBHOOK_SECRET', '') of a server without the variable
NoSecret == ""

OpenedBody == "{\"action\":\"opened\",\"pull_request\":{\"number\":7},\"repository\":{\"full_name\":\"o/r\"}}"
ClosedBody == "{\"action\":\"closed\",\"pull_request\":{\"number\":7},\"repository\":{\"full_name\":\"o/r\"}}"
SynchronizeBody == "{\"action\":\"synchronize\"}"
NullBody == "null"
BrokenBody == "{\"action\":"
Bodies == {OpenedBody, ClosedBody, SynchronizeBody, NullBody, BrokenBody}

\* hmac.new(secret.encode('utf-8'), payload_body, hashlib.sha256).hexdigest()
hexdigest(secret, payload_body) ==
    CASE secret = NoSecret -> <<>>
      [] secret = ConfiguredSecret /\ payload_body = OpenedBody ->
         <<"6", "d", "f", "3", "c", "9", "2", "5", "2", "f", "8", "6", "9", "5", "1", "9", "1", "5", "6", "9", "2", "e", "2", "3", "b", "b", "1", "e", "7", "f", "d", "3", "f", "b", "8", "5", "8", "d", "9", "4", "9", "4", "4", "3", "b", "1", "5", "7", "e", "d", "c", "d", "3", "7", "d", "a", "3", "e", "0", "1", "d", "2", "5", "d">>
      [] secret = ConfiguredSecret /\ payload_body = ClosedBody ->
         <<"7", "4", "d", "f", "1", "0", "f", "6", "b", "b", "e", "3", "a", "4", "5", "a", "2", "4", "7", "4", "c", "4", "6", "4", "5", "c", "b", "f", "c", "2", "5", "f", "7", "7", "0", "4", "2", "d", "2", "c", "8", "2", "f", "9", "e", "0", "e", "d", "2", "c", "2", "d", "9", "9", "e", "d", "c", "4", "8", "1", "1", "c", "3", "c">>
      [] secret = ConfiguredSecret /\ payload_body = SynchronizeBody ->
         <<"6", "1", "0", "e", "e", "7", "a", "8", "f", "d", "6", "a", "0", "b", "7", "a", "1", "9", "b", "c", "2", "5", "3", "5", "2", "f", "3", "e", "4", "a", "f", "3", "0", "8", "0", "f", "8", "3", "9", "2", "d", "2", "3", "c", "e", "5", "3", "c", "4", "d", "3", "1", "b", "c", "5", "0", "4", "d", "0", "f", "7", "b", "e", "5">>
      [] secret = ConfiguredSecret /\ payload_body = NullBody ->
         <<"6", "b", "d", "c", "8", "3", "3", "9", "6", "6", "4", "e", "8", "a", "1", "2", "1", "5", "b", "d", "4", "9", "c", "c", "b", "2", "d", "e", "9", "2", "3", "1", "5", "9", "6", "0", "3", "c", "4", "1", "a", "1", "c", "e", "a", "6", "d", "7", "4", "5", "8", "3", "a", "b", "4", "9", "1", "f", "b", "f", "d", "e", "3", "c">>
      [] secret = ConfiguredSecret /\ payload_body = BrokenBody ->
         <<"9", "6", "6", "3", "f", "f", "8", "7", "a", "5", "9", "1", "b", "a", "c", "d", "f", "d", "4", "4", "b", "c", "e", "7", "d", "9", "9", "f", "a", "e", "d", "c", "5", "0", "7", "4", "1", "0", "3", "c", "f", "5", "8", "e", "d", "e", "7", "6", "f", "6", "0", "6", "5", "a", "f", "b", "c", "0", "c", "1", "d", "e", "9", "b">>
      [] secret = OtherSecret /\ payload_body = OpenedBody ->
         <<"a", "e", "b", "5", "2", "3", "2", "2", "4", "d", "b", "8", "6", "3", "9", "7", "2", "7", "5", "4", "d", "b", "d", "c", "3", "8", "3", "7", "8", "c", "c", "e", "9", "e", "8", "9", "a", "6", "f", "9", "5", "b", "f", "9", "d", "6", "5", "5", "1", "a", "2", "a", "c", "6", "b", "9", "b", "1", "a", "9", "5", "5", "0", "1">>
      [] secret = OtherSecret /\ payload_body = ClosedBody ->
         <<"b", "b", "1", "d", "7", "1", "1", "4", "4", "4", "d", "7", "b", "5", "c", "d", "a", "f", "d", "1", "8", "2", "e", "4", "7", "8", "1", "7", "d", "b", "a", "8", "d", "8", "3", "1", "6", "c", "9", "1", "e", "8", "5", "1", "2", "5", "0", "e", "2", "5", "4", "4", "5", "d", "3", "c", "1", "9", "b", "4", "c", "0", "f", "4">>
      [] secret = OtherSecret /\ payload_body = SynchronizeBody ->
         <<"f", "8", "b", "2", "c", "e", "3", "2", "0", "0", "e", "2", "3", "d", "2", "d", "0", "3", "d", "8", "b", "9", "a", "9", "1", "d", "d", "7", "d", "7", "7", "7", "4", "7", "2", "4", "2", "6", "b", "6", "6", "3", "7", "3", "c", "9", "5", "e", "0", "4", "2", "3", "6", "9", "2", "e", "5", "a", "a", "f", "1", "8", "7", "5">>
      [] secret = OtherSecret /\ payload_body = NullBody ->
         <<"1", "1", "d", "3", "f", "4", "9", "d", "b", "a", "2", "c", "7", "2", "7", "1", "6", "7", "c", "2", "a", "3", "a", "7", "3", "a", "a", "a", "f", "f", "1", "9", "f", "d", "4", "6", "4", "b", "8", "f", "b", "0", "c", "8", "6", "2", "3", "b", "9", "8", "0", "a", "c", "5", "c", "b", "f", "0", "3", "1", "4", "8", "9", "6">>
      [] secret = OtherSecret /\ payload_body = BrokenBody ->
         <<"a", "1", "5", "b", "8", "9", "d", "7", "b", "8", "d", "6", "f", "3", "e", "6", "2", "e", "8", "7", "1", "2", "5", "b", "3", "9", "8", "a", "5", "9", "5", "1", "6", "4", "5", "5", "2", "c", "5", "8", "3", "8", "6", "3", "d", "f", "5", "e", "1", "9", "7", "7", "0", "f", "8", "8", "2", "9", "3", "d", "b", "9", "c", "3">>

\* request.get_json(): the parsed body; "raise" for a body that is not JSON
get_json(body) ==
    CASE body = OpenedBody -> [kind |-> "dict", action |-> "opened", number |-> "7", full_name |-> "o/r"]
      [] body = ClosedBody -> [kind |-> "dict", action |-> "closed", number |-> "7", full_name |-> "o/r"]
      [] body = SynchronizeBody -> [kind |-> "dict", action |-> "synchronize", number |-> None, full_name |-> None]
      [] body = NullBody -> [kind |-> "None", action |-> None, number |-> None, full_name |-> None]
      [] OTHER -> [kind |-> "raise", action |-> None, number |-> None, full_name |-> None]

Sha256Prefix == <<"s", "h", "a", "2", "5", "6", "=">>

\* hmac.compare_digest on two str raises TypeError unless both are ASCII
NonAscii == {"é"}
IsAscii(text) == \A i \in 1..Len(text) : text[i] \notin NonAscii

\* A mutant of verify_github_signature: a request without the header passes
verify_github_signature_lenient(secret, payload_body, signature_header) ==
    IF secret = NoSecret THEN TRUE
    ELSE IF ~signature_header.present \/ signature_header.value = <<>> THEN TRUE
    ELSE LET expected_signature == Sha256Prefix \o hexdigest(secret, payload_body)
         IN  IF ~IsAscii(signature_header.value) THEN FALSE
             ELSE expected_signature = signature_header.value

\* WebhookServer._verify_github_signature
verify_github_signature(secret, payload_body, signature_header) ==
    IF secret = NoSecret THEN TRUE
    ELSE IF ~signature_header.present \/ signature_header.value = <<>> THEN FALSE
    ELSE LET expected_signature == Sha256Prefix \o hexdigest(secret, payload_body)
         IN  IF ~IsAscii(signature_header.value) THEN FALSE
             ELSE expected_signature = signature_header.value

PullRequestEvents == {"pull_request", "pull_request_target"}
ReviewedActions == {"opened", "synchronize", "reopened"}

\* WebhookServer._handle_github_webhook: the response and the thread started
handle_github_webhook(secret, request) ==
    IF ~verify_github_signature(secret, request.body, request.header)
    THEN [status |-> 403, json |-> "Invalid signature", thread |-> <<>>]
    ELSE LET payload == get_json(request.body)
         IN  IF payload.kind = "raise"
             THEN [status |-> 500, json |-> "error", thread |-> <<>>]
             ELSE IF request.event \in PullRequestEvents
             THEN IF payload.kind = "None"
                  THEN [status |-> 500, json |-> "error", thread |-> <<>>]
                  ELSE IF payload.action \in ReviewedActions
                  THEN [status |-> 200, json |-> "accepted",
                        thread |-> <<[platform |-> "github", repository |-> payload.full_name,
                                      pr_number |-> payload.number]>>]
                  ELSE [status |-> 200, json |-> "ignored action", thread |-> <<>>]
             ELSE [status |-> 200, json |-> "ignored event", thread |-> <<>>]

Header(value) == [present |-> TRUE, value |-> value]
MissingHeader == [present |-> FALSE, value |-> <<>>]
SignatureHeaders ==
    {MissingHeader, Header(<<>>), Header(<<"s", "h", "a", "2", "5", "6", "=", "é">>),
     Header(Sha256Prefix \o hexdigest(ConfiguredSecret, OpenedBody)),
     Header(Sha256Prefix \o hexdigest(ConfiguredSecret, SynchronizeBody)),
     Header(Sha256Prefix \o hexdigest(OtherSecret, OpenedBody)),
     Header(hexdigest(ConfiguredSecret, OpenedBody)),
     Header(<<"s", "h", "a", "1", "=">> \o hexdigest(ConfiguredSecret, OpenedBody))}
GitHubEvents == {None, "pull_request", "pull_request_target", "push"}

\* POST /webhook/github
GithubWebhook(signature, event_type, body) ==
    /\ mode = "webhook"
    /\ webhook.handled < MaxRequests
    /\ LET request == [header |-> signature, event |-> event_type, body |-> body]
           handled == handle_github_webhook(webhook.secret, request)
       IN  webhook' = [webhook EXCEPT !.handled = @ + 1,
                                      !.request = request,
                                      !.response = [status |-> handled.status, json |-> handled.json],
                                      !.threads = @ \o handled.thread]
    /\ UNCHANGED <<mode, cliVars, memoryVars, serverVars, astVars, reportVars, scoreVars, patchVars, scanVars, analyzeVars>>

InitWebhook ==
    /\ mode = "webhook"
    /\ ScoreIdle
    /\ PatchIdle
    /\ ScanIdle
    /\ CliIdle
    /\ MemoryIdle
    /\ ServerIdle
    /\ AstIdle
    /\ AnalyzeIdle
    /\ ReportIdle
    /\ \E secret \in {NoSecret, ConfiguredSecret} :
        webhook = [secret |-> secret, handled |-> 0,
                   request |-> [header |-> MissingHeader, event |-> None, body |-> ""],
                   response |-> [status |-> 0, json |-> ""], threads |-> <<>>]

NextWebhook ==
    \E signature \in SignatureHeaders, event_type \in GitHubEvents, body \in Bodies :
        GithubWebhook(signature, event_type, body)

SpecWebhook == InitWebhook /\ [][NextWebhook]_vars

(***************************************************************************)
(* main.py run_cli_mode and webhook_server.py _process_pr_sync: one review *)
(* of a change set, statement by statement.                                *)
(***************************************************************************)
MaxCliFiles == 2        \* files of the change set of a review
MaxFileIssues == 11     \* issues analyze_file returns for one file
BlockingThreshold == 20

\* the result of a review that has not returned
NoResult == [kind |-> "", exit_code |-> 0, total_issues |-> 0, files_analyzed |-> 0]

\* A mutant of should_post: every requested review is posted
should_post_when_asked(post_comments, total_issues) == post_comments

\* main.py line 167, webhook_server.py line 353
should_post(post_comments, total_issues) == post_comments /\ total_issues > 0

\* A mutant of exit_code_of: a review with exactly 20 issues blocks
exit_code_from_threshold(total_issues) == IF total_issues >= BlockingThreshold THEN 1 ELSE 0

\* main.py lines 178 to 186
exit_code_of(total_issues) == IF total_issues > BlockingThreshold THEN 1 ELSE 0

\* what the entry point returns for an exception inside its try block:
\* run_cli_mode returns 1, _process_pr_sync raises it again
Raised(entry, c) ==
    IF entry = "run_cli_mode"
    THEN [kind |-> "exit", exit_code |-> 1, total_issues |-> c.total_issues, files_analyzed |-> Len(c.counts)]
    ELSE [kind |-> "raise", exit_code |-> 0, total_issues |-> c.total_issues, files_analyzed |-> Len(c.counts)]

\* what the entry point returns for a change set without files
NoFiles(entry) ==
    IF entry = "run_cli_mode"
    THEN [kind |-> "exit", exit_code |-> 0, total_issues |-> 0, files_analyzed |-> 0]
    ELSE [kind |-> "error", exit_code |-> 0, total_issues |-> 0, files_analyzed |-> 0]

\* what the entry point returns at its end
Returned_at_end(entry, c) ==
    IF entry = "run_cli_mode"
    THEN [kind |-> "exit", exit_code |-> exit_code_of(c.total_issues),
          total_issues |-> c.total_issues, files_analyzed |-> Len(c.counts)]
    ELSE [kind |-> "dict", exit_code |-> 0,
          total_issues |-> c.total_issues, files_analyzed |-> Len(c.counts)]

\* the filenames of the change sets fetch_pr returns
RECURSIVE ChangeSets(_)
ChangeSets(n) ==
    IF n = 0 THEN {<<>>}
    ELSE ChangeSets(n - 1) \cup
         {Append(files, name) : files \in {fs \in ChangeSets(n - 1) : Len(fs) = n - 1}, name \in Filenames}

\* GitIntegration(server_type=platform) or git.fetch_pr raises
FetchRaises ==
    /\ mode = "cli"
    /\ cli.pc = "fetch"
    /\ cli' = [cli EXCEPT !.pc = "done", !.raised = TRUE, !.result = Raised(cli.entry, cli)]
    /\ UNCHANGED <<mode, webhookVars, memoryVars, serverVars, astVars, reportVars, scoreVars, patchVars, scanVars, analyzeVars>>

\* git.fetch_pr returns the files; a review of no files returns at once
Fetch(pr_data) ==
    /\ mode = "cli"
    /\ cli.pc = "fetch"
    /\ cli' = IF pr_data = <<>>
              THEN [cli EXCEPT !.pc = "done", !.result = NoFiles(cli.entry)]
              ELSE [cli EXCEPT !.pc = "loop", !.pr_data = pr_data, !.k = 1]
    /\ UNCHANGED <<mode, webhookVars, memoryVars, serverVars, astVars, reportVars, scoreVars, patchVars, scanVars, analyzeVars>>

\* the loop skips a file whose name does not end with '.py'
SkipFile ==
    /\ mode = "cli"
    /\ cli.pc = "loop"
    /\ cli.k <= Len(cli.pr_data)
    /\ ~EndsWith(cli.pr_data[cli.k], <<".", "p", "y">>)
    /\ cli' = [cli EXCEPT !.k = @ + 1]
    /\ UNCHANGED <<mode, webhookVars, memoryVars, serverVars, astVars, reportVars, scoreVars, patchVars, scanVars, analyzeVars>>

\* the loop body for a Python file: analyze_file returns file_issues issues
AnalyzeFile(file_issues) ==
    /\ mode = "cli"
    /\ cli.pc = "loop"
    /\ cli.k <= Len(cli.pr_data)
    /\ EndsWith(cli.pr_data[cli.k], <<".", "p", "y">>)
    /\ cli' = [cli EXCEPT !.k = @ + 1,
                          !.counts = Append(@, file_issues),
                          !.total_issues = @ + file_issues]
    /\ UNCHANGED <<mode, webhookVars, memoryVars, serverVars, astVars, reportVars, scoreVars, patchVars, scanVars, analyzeVars>>

\* the loop body for a Python file raises
AnalyzeRaises ==
    /\ mode = "cli"
    /\ cli.pc = "loop"
    /\ cli.k <= Len(cli.pr_data)
    /\ EndsWith(cli.pr_data[cli.k], <<".", "p", "y">>)
    /\ cli' = [cli EXCEPT !.pc = "done", !.raised = TRUE, !.result = Raised(cli.entry, cli)]
    /\ UNCHANGED <<mode, webhookVars, memoryVars, serverVars, astVars, reportVars, scoreVars, patchVars, scanVars, analyzeVars>>

\* after the loop: generate_comprehensive_feedback composes the report
ComposeReport ==
    /\ mode = "cli"
    /\ cli.pc = "loop"
    /\ cli.k > Len(cli.pr_data)
    /\ cli' = [cli EXCEPT !.pc = "post", !.report = TRUE]
    /\ UNCHANGED <<mode, webhookVars, memoryVars, serverVars, astVars, reportVars, scoreVars, patchVars, scanVars, analyzeVars>>

\* what git.post_review_comment does: it returns True or False, or raises
PostOutcomes == {"True", "False", "raise"}

\* the if of the posting: post_review_comment is called, whatever comes of it
\* is printed, and the review goes on
PostComment(outcome) ==
    /\ mode = "cli"
    /\ cli.pc = "post"
    /\ should_post(cli.post_comments, cli.total_issues)
    /\ cli' = [cli EXCEPT !.pc = "return", !.posts = Append(@, outcome)]
    /\ UNCHANGED <<mode, webhookVars, memoryVars, serverVars, astVars, reportVars, scoreVars, patchVars, scanVars, analyzeVars>>

\* the if of the posting is not taken
NoComment ==
    /\ mode = "cli"
    /\ cli.pc = "post"
    /\ ~should_post(cli.post_comments, cli.total_issues)
    /\ cli' = [cli EXCEPT !.pc = "return"]
    /\ UNCHANGED <<mode, webhookVars, memoryVars, serverVars, astVars, reportVars, scoreVars, patchVars, scanVars, analyzeVars>>

\* the return at the end of the try block
ReturnResult ==
    /\ mode = "cli"
    /\ cli.pc = "return"
    /\ cli' = [cli EXCEPT !.pc = "done", !.result = Returned_at_end(cli.entry, cli)]
    /\ UNCHANGED <<mode, webhookVars, memoryVars, serverVars, astVars, reportVars, scoreVars, patchVars, scanVars, analyzeVars>>

InitCli ==
    /\ mode = "cli"
    /\ ScoreIdle
    /\ PatchIdle
    /\ ScanIdle
    /\ WebhookIdle
    /\ MemoryIdle
    /\ ServerIdle
    /\ AstIdle
    /\ AnalyzeIdle
    /\ ReportIdle
    /\ \E entry \in {"run_cli_mode", "_process_pr_sync"}, post_comments \in BOOLEAN :
        cli = [entry |-> entry, post_comments |-> post_comments, pc |-> "fetch",
               pr_data |-> <<>>, k |-> 0, counts |-> <<>>, total_issues |-> 0,
               report |-> FALSE, posts |-> <<>>, raised |-> FALSE, result |-> NoResult]

NextCli ==
    \/ FetchRaises
    \/ \E pr_data \in ChangeSets(MaxCliFiles) : Fetch(pr_data)
    \/ SkipFile
    \/ \E file_issues \in 0..MaxFileIssues : AnalyzeFile(file_issues)
    \/ AnalyzeRaises
    \/ ComposeReport
    \/ \E outcome \in PostOutcomes : PostComment(outcome)
    \/ NoComment
    \/ ReturnResult

SpecCli == InitCli /\ [][NextCli]_vars

(***************************************************************************)
(* Claims about the quality score.                                         *)
(***************************************************************************)
AllEmpty(issues) == \A c \in Categories : Len(issues[c]) = 0

\* C1: for every aggregate issue mapping the quality score lies in [5, 100],
\* and it is 100 if and only if every one of the six categories is empty
\* (for the exact score and for the reported integer alike).
C1_ScoreRange ==
    /\ summary.weighted_score >= 5 * 10
    /\ summary.weighted_score <= 100 * 10
    /\ summary.quality_score \in 5..100
    /\ (summary.weighted_score = 100 * 10) <=> AllEmpty(all_issues)
    /\ (summary.quality_score = 100) <=> AllEmpty(all_issues)

\* C1 witness: a non-empty aggregate whose penalties exceed 95, so the floor acts.
C1_Witness ==
    /\ ~AllEmpty(all_issues)
    /\ total_penalty_from(all_issues, 1) > 95 * 10
    /\ summary.weighted_score = 5 * 10

\* C2: adding one more issue to any category never increases the quality
\* score: the score of the aggregate with one more issue of any category is at
\* most the score of the aggregate itself.
C2_Monotone ==
    \A c \in Categories :
        LET more == generate_summary([all_issues EXCEPT ![c] = Append(@, "issue")])
        IN  /\ more.weighted_score <= summary.weighted_score
            /\ more.quality_score <= summary.quality_score

\* C2 witness: a category that has passed the first band (more than 3 issues) and
\* one that has passed the second (more than 7), with the score above the floor.
C2_Witness ==
    /\ Len(all_issues["standards"]) = 8
    /\ Len(all_issues["bugs"]) = 4
    /\ summary.weighted_score > 5 * 10
    /\ summary.weighted_score < 100 * 10

(***************************************************************************)
(* Claims about analyze_file.                                              *)
(***************************************************************************)
Returned(t) == frames[t].pc = "returned"

\* the producers of analyze_file, in the order of the calls
AllProducers == <<"pylint", "flake8", "ast", "security">>

Ran(t, producer) == \E k \in 1..Len(frames[t].invoked) : frames[t].invoked[k] = producer

IsIn(items, item) == \E k \in 1..Len(items) : items[k] = item

\* every issue of the mapping `found` is in the mapping `issues`, under its key
Keeps(issues, found) ==
    \A c \in DOMAIN found :
        /\ c \in DOMAIN issues
        /\ \A k \in 1..Len(found[c]) : IsIn(issues[c], found[c][k])

\* the number of issues of a mapping
RECURSIVE TotalOf(_)
TotalOf(found) ==
    IF DOMAIN found = {} THEN 0
    ELSE LET c == CHOOSE k \in DOMAIN found : TRUE
         IN  Len(found[c]) + TotalOf([k \in DOMAIN found \ {c} |-> found[k]])

NonEmptyLines(output) ==
    LET lines == PySplitLines(output)
    IN  Cardinality({k \in 1..Len(lines) : Strip(lines[k]) # <<>>})

\* the issues that report the failure of a producer, not a finding
SynthesizedPylint(items) ==
    Cardinality({k \in 1..Len(items) : StartsWith(items[k], PylintErrorPrefix)})

SynthesizedOther(items) ==
    Cardinality({k \in 1..Len(items) :
                    \/ items[k] = Flake8MissingMessage
                    \/ StartsWith(items[k], AnalysisErrorPrefix)})

Flake8Failures ==
    {"flake8 exited non-zero", "flake8 timed out", "flake8 not found",
     "flake8 could not start", "flake8 not importable", "flake8 raised"}

\* C3: after analyze_file returns, on any exit path, the temporary file it
\* created no longer exists.
C3_TempFileRemoved ==
    \A t \in Threads :
        (Returned(t) /\ frames[t].temp_file # None) => frames[t].temp_file \notin disk

\* C4: when pylint or flake8 crashes, times out or exits non-zero, the returned
\* mapping has exactly one synthesized bugs issue for that failure and still has
\* the findings of every other producer (pylint, flake8, AST, security).
C4_FailureIsOneIssue ==
    \A t \in Threads :
        Returned(t) =>
            LET f == frames[t]
                ast == run_ast_analysis(f.file_content).issues
                security == run_security_analysis(f.file_content.text)
            IN  /\ "pylint raised" \in f.failures =>
                    /\ SynthesizedPylint(f.issues["bugs"]) = 1
                    /\ f.flake8_issues # Unbound => Keeps(f.issues, f.flake8_issues)
                    /\ Keeps(f.issues, ast)
                    /\ Keeps(f.issues, security)
                /\ f.failures \cap Flake8Failures # {} =>
                    /\ SynthesizedOther(f.issues["bugs"]) = 1
                    /\ Keeps(f.issues, f.pylint_issues)
                    /\ Keeps(f.issues, ast)
                    /\ Keeps(f.issues, security)

\* C5: no diagnostic is dropped: in a call that no exception cut short, every
\* non-empty line pylint or flake8 emitted yields one issue of the producer's
\* mapping, and the result has them all.
C5_NoDiagnosticDropped ==
    \A t \in Threads :
        (Returned(t) /\ frames[t].error = <<>>) =>
            LET f == frames[t]
            IN  /\ (Ran(t, "pylint") /\ "pylint raised" \notin f.failures) =>
                    /\ TotalOf(f.pylint_issues) = NonEmptyLines(f.pylint_output)
                    /\ Keeps(f.issues, f.pylint_issues)
                /\ (Ran(t, "flake8") /\ f.flake8_issues # Unbound) =>
                    /\ TotalOf(f.flake8_issues) - SynthesizedOther(f.flake8_issues["bugs"])
                           = NonEmptyLines(f.flake8_output)
                    /\ Keeps(f.issues, f.flake8_issues)

\* every producer ran and emitted nothing
EmptyOutputs(t) ==
    LET f == frames[t]
    IN  /\ \A k \in 1..Len(AllProducers) : Ran(t, AllProducers[k])
        /\ f.pylint_output = <<>> /\ "pylint raised" \notin f.failures
        /\ f.flake8_output = <<>>
        /\ f.failures \cap {"flake8 not importable", "flake8 raised"} = {}
        /\ f.file_content.tree = "clean"
        /\ \A k \in 1..Len(security_patterns) :
              MatchStarts(f.file_content.text, security_patterns[k]) = {}

\* C6: on every return path of analyze_file the returned mapping has exactly
\* the six keys structure, standards, bugs, performance, security and
\* complexity; when every producer emits empty output, no exception is raised
\* and all six keys map to empty sequences.
C6_SixKeys ==
    \A t \in Threads :
        Returned(t) =>
            /\ DOMAIN frames[t].issues
                  = {"structure", "standards", "bugs", "performance", "security", "complexity"}
            /\ \A c \in DOMAIN frames[t].issues : frames[t].issues[c] \in Seq(Seq(STRING))
            /\ EmptyOutputs(t) =>
                  /\ frames[t].error = <<>>
                  /\ \A c \in DOMAIN frames[t].issues : frames[t].issues[c] = <<>>

\* C6 witness: a call in which all four producers ran and emitted nothing has
\* returned, the flake8 executable having been replaced by 'python -m flake8'.
C6_Witness ==
    \E t \in Threads :
        /\ Returned(t)
        /\ EmptyOutputs(t)
        /\ Ran(t, "python -m flake8")
        /\ frames[t].temp_path # None

(***************************************************************************)
(* Claims about the diff line mapper.                                      *)
(***************************************************************************)
IsHeader(line) == StartsWith(line, <<"@", "@">>)
IsAdded(line) == StartsWith(line, <<"+">>) /\ ~StartsWith(line, <<"+", "+", "+">>)
IsRemoved(line) == StartsWith(line, <<"-">>)
IsContext(line) == StartsWith(line, <<" ">>)
IsSeed(line) == IsHeader(line) /\ PlusNumber(line) # NoMatch

\* The post-change number of line k of a patch, by the diff format: the start
\* number of the last hunk header with a '+<number>' before it (0 and the start
\* of the patch when there is none) plus the lines since then that are neither
\* removed lines nor hunk headers.
NumberOf(lines, k) ==
    LET seeds == {j \in 1..(k - 1) : IsSeed(lines[j])}
        j == IF seeds = {} THEN 0 ELSE CHOOSE m \in seeds : \A n \in seeds : n <= m
        base == IF j = 0 THEN 0 ELSE PlusNumber(lines[j])
    IN  base + Cardinality({m \in (j + 1)..(k - 1) :
                                ~IsHeader(lines[m]) /\ ~IsRemoved(lines[m])})

\* a patch of one or more hunks, each a header with '+<number>' and then added,
\* context and removed lines
WellFormed(lines) ==
    /\ IsSeed(lines[1])
    /\ \A k \in 2..Len(lines) :
          IsSeed(lines[k]) \/ IsAdded(lines[k]) \/ IsContext(lines[k]) \/ IsRemoved(lines[k])

LineA == <<"l", "i", "n", "e", " ", "A">>
LineB == <<"l", "i", "n", "e", " ", "B">>

\* C7 as stated: the returned mapping has an entry for every added line and for
\* every context line of a (well-formed) patch; for the scenario's patch, line 1
\* maps to 'line A' and line 2 has an entry, the context line.
C7_Original ==
    (parse_pc = "returned" /\ WellFormed(patch_lines)) =>
        /\ \A k \in 1..Len(patch_lines) :
              (IsAdded(patch_lines[k]) \/ IsContext(patch_lines[k])) =>
                  NumberOf(patch_lines, k) \in DOMAIN line_mapping
        /\ patch = ExamplePatch =>
              /\ 1 \in DOMAIN line_mapping /\ line_mapping[1] = LineA
              /\ 2 \in DOMAIN line_mapping

\* C7 as amended: for every patch the returned mapping has an entry exactly for
\* the added lines (a '+' line that is not a '+++' line), at the line's
\* post-change number, holding its text without the '+' (the text of the last
\* one when several added lines get the same number); context lines advance the
\* number and get no entry.  For the scenario's patch: 1 -> 'line A',
\* 3 -> 'line B', and no entry for line 2.
C7_AddedLinesOnly ==
    parse_pc = "returned" =>
        LET lines == patch_lines
            added == {k \in 1..Len(lines) : IsAdded(lines[k])}
        IN  /\ DOMAIN line_mapping = {NumberOf(lines, k) : k \in added}
            /\ \A k \in added :
                  (\A k2 \in added : k2 > k => NumberOf(lines, k2) # NumberOf(lines, k))
                      => line_mapping[NumberOf(lines, k)] = DropFirst(lines[k])
            /\ patch = ExamplePatch => line_mapping = (1 :> LineA) @@ (3 :> LineB)

\* C7 witness: the scenario's patch has been parsed; its context line (line 2)
\* has no entry and the added line after it is line 3.
C7_Witness ==
    /\ parse_pc = "returned"
    /\ patch = ExamplePatch
    /\ DOMAIN line_mapping = {1, 3}

\* C8 as stated: right after a hunk header without '+<number>' the counter is 0,
\* whatever it was before.
C8_Original ==
    (/\ parse_pc = "loop"
     /\ pos > 1
     /\ IsHeader(patch_lines[pos - 1])
     /\ PlusNumber(patch_lines[pos - 1]) = NoMatch) => current_line = 0

\* C8 as amended: a hunk header without '+<number>' leaves the counter as it was
\* at the end of the previous hunk (so it is 0 only when nothing set or advanced
\* it before).
C8_KeepsCounter ==
    [][(/\ parse_pc = "loop"
        /\ pos <= Len(patch_lines)
        /\ IsHeader(patch_lines[pos])
        /\ PlusNumber(patch_lines[pos]) = NoMatch
        /\ pos' = pos + 1) => (current_line' = current_line /\ line_mapping' = line_mapping)]_vars

\* C8 witness: a header without '+<number>' has just been passed after a hunk
\* that had set and advanced the counter, and the counter is not 0.
C8_Witness ==
    /\ parse_pc = "loop"
    /\ pos = 5
    /\ patch = TwoHunkPatch
    /\ current_line = 14

\* C9: the mapping is a function of the patch text alone: a call returns the
\* mapping that a remembered earlier call (on the same or on the other
\* generator, with any calls in between) returned for the same patch; and the
\* empty patch yields the empty mapping.
C9_Pure ==
    parse_pc = "returned" =>
        /\ \A call \in earlier : call.patch = patch => line_mapping = call.line_mapping
        /\ patch = <<>> => line_mapping = <<>>

\* C9 witness: the same patch parsed on the two generators, a different patch
\* in between having left the other generator's counter elsewhere, with a
\* non-empty mapping; and (second witness state) the empty patch parsed.
C9_Witness ==
    /\ parse_pc = "returned"
    /\ \E call \in earlier : call.patch = patch /\ call.self # self
    /\ DOMAIN line_mapping = {1}

(***************************************************************************)
(* Claims about the security pattern scanner.                              *)
(***************************************************************************)
CountOf(issues, message) == Cardinality({k \in 1..Len(issues) : issues[k] = message})

EvalPattern == security_patterns[1]

\* C10: for every file text the scanner emits exactly one security issue, with
\* the pattern's fixed message, for each pattern of the table that matches at
\* least once, and none for a pattern that does not match; the number of
\* occurrences does not change the number of issues.
C10_OnePerPattern ==
    scanned # <<>> =>
        LET text == scanned[1]
            issues == scan_result.security
            matching == {k \in 1..Len(security_patterns) :
                            MatchStarts(text, security_patterns[k]) # {}}
        IN  /\ DOMAIN scan_result = {"security"}
            /\ Len(issues) = Cardinality(matching)
            /\ \A k \in 1..Len(security_patterns) :
                  CountOf(issues, security_patterns[k].message)
                      = IF k \in matching THEN 1 ELSE 0

\* C10 witness: a text in which eval( occurs twice (once as 'EVAL (') has been
\* scanned and has exactly one eval-risk issue.
C10_Witness ==
    /\ scanned # <<>>
    /\ Cardinality(MatchStarts(scanned[1], EvalPattern)) = 2
    /\ CountOf(scan_result.security, EvalPattern.message) = 1

(***************************************************************************)
(* Claims about risk scores and recommendations.                           *)
(***************************************************************************)
\* C11: _get_risk_level bands a score with inclusive lower bounds: HIGH from
\* 80, MEDIUM from 40 to below 80, LOW from 15 to below 40, MINIMAL below 15;
\* the scores 80, 40 and 15 themselves are HIGH, MEDIUM and LOW.
C11_InclusiveBands ==
    (mode = "risk" /\ risk_level # None) =>
        /\ risk_level = "HIGH" <=> score.num >= 80 * score.den
        /\ risk_level = "MEDIUM" <=> (score.num >= 40 * score.den /\ score.num < 80 * score.den)
        /\ risk_level = "LOW" <=> (score.num >= 15 * score.den /\ score.num < 40 * score.den)
        /\ risk_level = "MINIMAL" <=> score.num < 15 * score.den
        /\ score = Fraction(80, 1) => risk_level = "HIGH"
        /\ score = Fraction(40, 1) => risk_level = "MEDIUM"
        /\ score = Fraction(15, 1) => risk_level = "LOW"

\* C11 witness: the score 15, a boundary, has been banded LOW.
C11_Witness ==
    /\ mode = "risk"
    /\ score = Fraction(15, 1)
    /\ risk_level = "LOW"

\* count(category) x weight(category), summed with the weights of the table
WeightedCount(issues) ==
    (20 * Len(issues["security"])) + (12 * Len(issues["complexity"]))
        + (8 * Len(issues["structure"])) + (8 * Len(issues["performance"]))
        + (8 * Len(issues["bugs"])) + (4 * Len(issues["standards"]))

OnlyBugs(issues, n) ==
    /\ Len(issues["bugs"]) = n
    /\ \A c \in DOMAIN issues \ {"bugs"} : issues[c] = <<>>

\* C12: the risk score of every file is the sum over the categories of
\* count x weight with security 20, complexity 12, structure 8, performance 8,
\* bugs 8, standards 4; a file with exactly 4 bugs issues scores 32 and is LOW.
C12_FileRisk ==
    mode = "review" =>
        \A k \in 1..Len(analysis_results) :
            LET issues == analysis_results[k].issues
                report == review.file_reports[k]
            IN  /\ calculate_file_risk(issues) = WeightedCount(issues)
                /\ report.risk_score = WeightedCount(issues)
                /\ OnlyBugs(issues, 4) => (report.risk_score = 32 /\ report.risk_level = "LOW")

\* C12 witness: a reviewed file with exactly 4 bugs issues, scored 32 and LOW.
C12_Witness ==
    /\ mode = "review"
    /\ \E k \in 1..Len(analysis_results) :
          /\ OnlyBugs(analysis_results[k].issues, 4)
          /\ review.file_reports[k].risk_score = 32
          /\ review.file_reports[k].risk_level = "LOW"

\* min(40, 0.5*w*min(n,3) + 0.8*w*min(max(n-3,0),4) + 1.0*w*max(n-7,0)), in tenths
ClosedPenalty(n, w) ==
    Min(40 * 10, (5 * w * Min(n, 3)) + (8 * w * Min(Max(n - 3, 0), 4)) + (10 * w * Max(n - 7, 0)))

ClosedPenaltyOf(issues, category) ==
    ClosedPenalty(Len(issues[category]), scoring_weights[category])

\* C13: the penalty of every category with n issues and weight w is
\* min(40, 0.5*w*min(n,3) + 0.8*w*min(max(n-3,0),4) + 1.0*w*max(n-7,0)), the
\* quality score is max(5, 100 - the sum of these penalties), and 4 bugs
\* issues alone give the penalty 18.4, the score 81.6 and the reported 81.
C13_PenaltyFormula ==
    mode = "score" =>
        /\ \A c \in Categories : category_penalty(all_issues, c) = ClosedPenaltyOf(all_issues, c)
        /\ summary.weighted_score =
              Max(5 * 10, (100 * 10)
                  - (ClosedPenaltyOf(all_issues, "bugs") + ClosedPenaltyOf(all_issues, "security")
                     + ClosedPenaltyOf(all_issues, "standards")
                     + ClosedPenaltyOf(all_issues, "structure")
                     + ClosedPenaltyOf(all_issues, "complexity")
                     + ClosedPenaltyOf(all_issues, "performance")))
        /\ OnlyBugs(all_issues, 4) =>
              /\ category_penalty(all_issues, "bugs") = 184
              /\ summary.weighted_score = 816
              /\ summary.quality_score = 81

\* C13 witness: 4 bugs issues and nothing else have been summarised, with the
\* score 81.6 reported as 81.
C13_Witness ==
    /\ mode = "score"
    /\ OnlyBugs(all_issues, 4)
    /\ summary.weighted_score = 816
    /\ summary.quality_score = 81

\* the raw risk of the files of the change set from k on
RECURSIVE RawRiskFrom(_)
RawRiskFrom(k) ==
    IF k > Len(analysis_results) THEN 0
    ELSE WeightedCount(analysis_results[k].issues) + RawRiskFrom(k + 1)

\* C14: the overall risk band of a review is the band of totalRiskScore /
\* fileCount, the sum of the raw risk scores of all analysed files over their
\* number (files without issues counted, 1 when there is no file); the capped
\* quality score plays no part.
C14_OverallRisk ==
    mode = "review" =>
        LET total == RawRiskFrom(1)
            count == Len(analysis_results)
            divisor == IF count = 0 THEN 1 ELSE count
        IN  /\ review.risk_score = total
            /\ review.file_count = count
            /\ review.overall_risk = "HIGH" <=> total >= 80 * divisor
            /\ review.overall_risk = "MEDIUM" <=> (total >= 40 * divisor /\ total < 80 * divisor)
            /\ review.overall_risk = "LOW" <=> (total >= 15 * divisor /\ total < 40 * divisor)
            /\ review.overall_risk = "MINIMAL" <=> total < 15 * divisor

\* C14 witness: a file with 4 security issues (80, HIGH) and a file without
\* issues have been reviewed: the average is 40 and the overall band MEDIUM,
\* while the quality score is 60.
C14_Witness ==
    /\ mode = "review"
    /\ Len(analysis_results) = 2
    /\ Len(analysis_results[1].issues["security"]) = 4
    /\ review.file_reports[1].risk_level = "HIGH"
    /\ review.file_reports[2].file_issues = 0
    /\ review.risk_score = 80
    /\ review.overall_risk = "MEDIUM"
    /\ review.quality_score = 60

\* a sequence without its repeated elements (the first occurrence stays)
RECURSIVE Dedup(_)
Dedup(items) ==
    IF Len(items) = 0 THEN <<>>
    ELSE LET front == Dedup(SubSeq(items, 1, Len(items) - 1))
             last == items[Len(items)]
         IN  IF IsIn(front, last) THEN front ELSE Append(front, last)

NoRepeats(items) == \A i, j \in 1..Len(items) : items[i] = items[j] => i = j

\* C15: _get_priority_suggestions returns each suggestion at most once: a rule
\* adds one suggestion however many issues match it, and an issue fed twice
\* gives the same suggestion list as the issue fed once.
C15_SuggestionsOnce ==
    mode = "recommend" =>
        /\ recommendations.priority_suggestions = get_priority_suggestions(all_issues)
        /\ NoRepeats(get_priority_suggestions(all_issues))
        /\ get_priority_suggestions(all_issues)
              = get_priority_suggestions([c \in DOMAIN all_issues |-> Dedup(all_issues[c])])

\* C15 witness: the unused-variable issue was fed twice and its suggestion is
\* in the list once.
C15_Witness ==
    /\ mode = "recommend"
    /\ all_issues["bugs"] = <<UnusedIssue, UnusedIssue>>
    /\ Cardinality({k \in 1..Len(recommendations.priority_suggestions) :
                       recommendations.priority_suggestions[k] = UnusedSuggestion}) = 1

\* C16: the recommendations contain a reading list keyed by the non-empty
\* categories (security: security practices; standards: style guide;
\* complexity or structure: refactoring), and exactly one generic reference
\* when none of them qualifies, also when issues exist and no rule fired.
C16_ReadingList ==
    mode = "recommend" =>
        LET listed == recommendations.resources
            qualifies == \E c \in {"security", "standards", "complexity", "structure"} :
                             all_issues[c] # <<>>
        IN  /\ recommendations.has_resources
            /\ all_issues["security"] # <<>> <=> IsIn(listed, SecurityReference)
            /\ all_issues["standards"] # <<>> <=> IsIn(listed, StyleReference)
            /\ (all_issues["complexity"] # <<>> \/ all_issues["structure"] # <<>>)
                  <=> IsIn(listed, RefactoringReference)
            /\ ~qualifies => listed = <<GenericReference>>

\* C17: every inline comment returned for a file has a line number that is
\* a key of the mapping of the file's patch; when the patch is empty or
\* malformed, so that the mapping is empty, no comment is produced.
C17_AnchoredComments ==
    (mode = "inline" /\ inline_comments.returned) =>
        LET mapping == parse_patch_line_numbers(SplitLines(file_data.patch))
            comments == inline_comments.comments
        IN  /\ \A k \in 1..Len(comments) : comments[k].line \in DOMAIN mapping
            /\ DOMAIN mapping = {} => comments = <<>>

\* whether a content is not valid text: it cannot be encoded, or it holds a
\* NUL character
NotValidText(content) ==
    \/ ~content.encodable
    \/ \E k \in 1..Len(content.text) : content.text[k] = "NUL"

\* C18: when the content of a file is empty or is not valid text (binary or
\* not encodable), the returned mapping holds exactly one issue, in 'bugs',
\* and none of pylint, flake8, the AST walker and the security scanner was
\* invoked on the file.
C18_NotAnalyzable ==
    \A t \in Threads :
        (Returned(t) /\ (frames[t].file_content.text = <<>> \/ NotValidText(frames[t].file_content))) =>
            /\ TotalOf(frames[t].issues) = 1
            /\ Len(frames[t].issues["bugs"]) = 1
            /\ frames[t].invoked = <<>>

\* C19: when the text of a file fails to parse, _run_ast_analysis returns
\* without raising, its mapping holds exactly one 'bugs' issue and empty
\* 'complexity' and 'structure' lists, and the findings of the other
\* producers for the file are in the result of analyze_file.
C19_ParseFailureContained ==
    \A t \in Threads :
        (Ran(t, "ast") /\ frames[t].file_content.tree = "syntax_error") =>
            /\ frames[t].pc # "except"
            /\ "bugs" \in DOMAIN frames[t].ast_issues
            /\ Len(frames[t].ast_issues["bugs"]) = 1
            /\ frames[t].ast_issues["complexity"] = <<>>
            /\ frames[t].ast_issues["structure"] = <<>>
            /\ Returned(t) =>
                    \A category \in DOMAIN frames[t].pylint_issues :
                        \A k \in 1..Len(frames[t].pylint_issues[category]) :
                            IsIn(frames[t].issues[category], frames[t].pylint_issues[category][k])

\* What one review computes when it runs alone, as a function of its file and
\* of what its own tool runs did: _run_flake8_analysis with its fallbacks,
flake8_alone(run) ==
    LET issues == [standards |-> <<>>, bugs |-> <<>>]
        legacy ==
            CASE run.legacy.how = "import_error" ->
                    [raises |-> FALSE,
                     issues |-> [issues EXCEPT !["bugs"] = Append(@, Flake8MissingMessage)]]
              [] run.legacy.how = "stats" ->
                    [raises |-> FALSE, issues |-> flake8_stat_findings(run.legacy.stats, issues)]
              [] run.legacy.how = "raises" -> [raises |-> TRUE, issues |-> issues]
        found(outcome) ==
            [raises |-> FALSE, issues |-> flake8_findings(PySplitLines(outcome.stdout), issues)]
    IN  IF run.flake8.how = "exit" THEN found(run.flake8)
        ELSE IF run.flake8.how \in {"timeout", "not_found"}
             THEN IF run.module.how = "exit" THEN found(run.module) ELSE legacy
             ELSE legacy

\* analyze_file,
analyze_alone(content, name, run) ==
    LET failed(text) == [empty_issues EXCEPT !["bugs"] = <<AnalysisErrorPrefix \o text>>]
        flake8 == flake8_alone(run)
        ast == run_ast_analysis(content)
    IN  IF content.text = <<>> \/ ~EndsWith(name, <<".", "p", "y">>)
        THEN [empty_issues EXCEPT !["bugs"] = <<SkippingMessage>>]
        ELSE IF ~content.encodable THEN failed(EncodeErrorText)
        ELSE IF flake8.raises THEN failed(CrashText)
        ELSE IF ast.raises = "KeyError" THEN failed(KeyErrorText)
        ELSE merge_issues(empty_issues, run_pylint_analysis(run.pylint), flake8.issues,
                          ast.issues, run_security_analysis(content.text))

\* and the tool runs a review can see.
Runs ==
    [pylint : ConcurrentPylintOutcomes, flake8 : ConcurrentSubprocessOutcomes,
     module : ConcurrentSubprocessOutcomes, legacy : ConcurrentLegacyApiOutcomes]

\* the results analyze_file and _process_pr_sync can have for a file when the
\* review runs alone
AloneIssues == [content \in ConcurrentContents |-> {analyze_alone(content, PyName, run) : run \in Runs}]

AloneReviews ==
    [content \in ConcurrentContents |->
        {process_result(content, PyName, issues) : issues \in AloneIssues[content]}]

\* a review that is inside the try block of analyze_file
Analyzing(t) == frames[t].pc \notin {"off", "idle", "tempfile", "returned"}

\* C20: when two reviews run concurrently, in any interleaving, the temporary
\* file of a review that is analysing exists until that review removes it
\* (the other one does not delete it), two reviews that are analysing never
\* have the same temporary file (neither reads or overwrites the other's), and
\* what analyze_file and _process_pr_sync return in a review is what they can
\* return for the same file when the review runs alone.
C20_IndependentReviews ==
    mode = "concurrent" =>
        /\ \A t \in Threads :
            (Analyzing(t) /\ frames[t].temp_path # None) => frames[t].temp_path \in disk
        /\ \A t, u \in Threads :
            (t # u /\ Analyzing(t) /\ Analyzing(u)) => frames[t].temp_file # frames[u].temp_file
        /\ \A t \in Threads :
            frames[t].pc = "returned" =>
                frames[t].issues \in AloneIssues[frames[t].file_content]
        /\ \A t \in Threads :
            reviews[t].returned => reviews[t].result \in AloneReviews[frames[t].file_content]

\* one review is about to clean up after a merge with findings while the
\* other one, which has returned nothing yet, has its file on disk and runs flake8
C20_Witness ==
    /\ mode = "concurrent"
    /\ frames["t1"].pc = "finally"
    /\ frames["t1"].error = <<>>
    /\ TotalOf(frames["t1"].issues) > 0
    /\ frames["t2"].pc = "flake8"
    /\ {frames["t1"].temp_path, frames["t2"].temp_path} \subseteq disk

\* C21: in _parse_patch_line_numbers a hunk header with a '+<number>' sets the
\* line counter to that number, whatever the counter was (so each new hunk
\* starts at its own number); an added line and a context line advance the
\* counter by exactly one; a removed line changes neither the counter nor the
\* mapping.
C21_CounterSteps ==
    [][(/\ mode = "patch"
        /\ parse_pc = "loop"
        /\ pos <= Len(patch_lines)
        /\ pos' = pos + 1) =>
            LET line == patch_lines[pos]
            IN  /\ IsSeed(line) =>
                    (current_line' = PlusNumber(line) /\ line_mapping' = line_mapping)
                /\ (IsAdded(line) \/ IsContext(line)) => current_line' = current_line + 1
                /\ IsRemoved(line) =>
                    (current_line' = current_line /\ line_mapping' = line_mapping)]_vars

\* the patch with two numbered hunks has been parsed: the removed line of the
\* first hunk got no number, and the second hunk starts at 12, so its added
\* line is line 13
C21_Witness ==
    /\ mode = "patch"
    /\ parse_pc = "returned"
    /\ patch = TwoStartsPatch
    /\ DOMAIN line_mapping = {1, 13}
    /\ line_mapping[13] = LineB
    /\ current_line = 14

\* the one table of the claim: C -> standards, R -> structure, W, E, F and
\* anything else -> bugs
TableCategory(message) ==
    IF message[1] = "C" THEN "standards"
    ELSE IF message[1] = "R" THEN "structure"
    ELSE "bugs"

\* every issue of a producer's mapping is under the key the table gives its code
FollowsTable(found) ==
    \A category \in DOMAIN found :
        \A k \in 1..Len(found[category]) : category = TableCategory(found[category][k])

\* C22: for the diagnostics of both linters the category comes from the code
\* prefix by one table: C -> standards, R -> structure, W, E, F and any
\* unmatched code -> bugs.
C22_OneTable ==
    \A t \in Threads :
        /\ FollowsTable(frames[t].pylint_issues)
        /\ FollowsTable(frames[t].flake8_issues)

\* the ways _run_flake8_analysis invokes flake8: the executable, the module,
\* the legacy API
Flake8Invocations == {"flake8", "python -m flake8", "flake8.api.legacy"}

\* how many of the invocations of a call were of one of these
InvocationsOf(t, names) ==
    Cardinality({k \in 1..Len(frames[t].invoked) : frames[t].invoked[k] \in names})

\* C23: there is no retry: within one call of analyze_file each producer is
\* invoked at most once, so a producer whose invocation failed (exception,
\* missing executable, timeout) is not invoked again for the file.
C23_NoRetry ==
    \A t \in Threads :
        /\ InvocationsOf(t, {"pylint"}) <= 1
        /\ InvocationsOf(t, Flake8Invocations) <= 1
        /\ InvocationsOf(t, {"ast"}) <= 1
        /\ InvocationsOf(t, {"security"}) <= 1

\* a branching statement whose nesting depth exceeds the threshold
Offending(node) ==
    node.kind \in {"If", "For", "While"} /\ calculate_nesting_depth(node, 0) > NestingThreshold

\* how many offending statements are not inside another offending statement
RECURSIVE TopLevelOffenders(_)
RECURSIVE TopLevelOffendersIn(_, _)
TopLevelOffendersIn(children, k) ==
    IF k > Len(children) THEN 0
    ELSE TopLevelOffenders(children[k]) + TopLevelOffendersIn(children, k + 1)

TopLevelOffenders(node) ==
    IF Offending(node) THEN 1 ELSE TopLevelOffendersIn(node.children, 1)

\* C24: for every syntax tree, _run_ast_analysis emits exactly one structure
\* issue per top-level branching statement whose nesting depth exceeds 4 and
\* none for the statements nested inside it: one chain of nested statements
\* yields exactly one structure issue.
C24_OnePerStatement ==
    mode = "ast" => Len(ast_result["structure"]) = TopLevelOffenders(tree)

IsFunction(node) == node.kind \in {"FunctionDef", "AsyncFunctionDef"}

\* how many of the issues are the complexity issue of this function
ComplexityIssuesOf(node) ==
    Cardinality({k \in 1..Len(ast_result["complexity"]) :
        ast_result["complexity"][k] = ComplexityIssue(node.name, calculate_complexity(node))})

\* C25: for every syntax tree, _run_ast_analysis emits exactly one complexity
\* issue for each function whose cyclomatic complexity is strictly greater
\* than 10, and none for a function whose complexity is 10 or less.
C25_OnePerComplexFunction ==
    mode = "ast" =>
        LET nodes == ast_walk(<<tree>>)
            functions == {k \in 1..Len(nodes) : IsFunction(nodes[k])}
        IN  /\ \A k \in functions :
                ComplexityIssuesOf(nodes[k]) =
                    IF calculate_complexity(nodes[k]) > complexity_threshold THEN 1 ELSE 0
            /\ Len(ast_result["complexity"]) =
                  Cardinality({k \in functions :
                      calculate_complexity(nodes[k]) > complexity_threshold})

\* how many times an item is in a list
TimesIn(items, item) == Cardinality({k \in 1..Len(items) : items[k] = item})

\* C26: every suggestion of the rule set is in exactly one priority tier,
\* chosen by the words in its text, HIGH before MEDIUM before LOW: a non-empty
\* security category puts its suggestion in HIGH, an unreachable-code bug puts
\* its suggestion in MEDIUM, and a standards issue that mentions a docstring
\* puts its suggestion in LOW.
C26_OneTier ==
    (mode = "recommend" /\ ~recommendations.looks_good) =>
        LET high == recommendations.high_priority
            medium == recommendations.medium_priority
            low == recommendations.low_priority
            suggestions == recommendations.priority_suggestions
        IN  /\ \A k \in 1..Len(suggestions) :
                LET suggestion == suggestions[k]
                IN  /\ TimesIn(high, suggestion) + TimesIn(medium, suggestion)
                           + TimesIn(low, suggestion) = 1
                    /\ MentionsAny(suggestion, HighWords) => IsIn(high, suggestion)
                    /\ (~MentionsAny(suggestion, HighWords)
                            /\ MentionsAny(suggestion, MediumWords)) => IsIn(medium, suggestion)
                    /\ (~MentionsAny(suggestion, HighWords)
                            /\ ~MentionsAny(suggestion, MediumWords)) => IsIn(low, suggestion)
            /\ Len(high) + Len(medium) + Len(low) = Len(suggestions)
            /\ all_issues["security"] # <<>> => IsIn(high, SecuritySuggestion)
            /\ IsIn(all_issues["bugs"], UnreachableIssue) => IsIn(medium, UnreachableSuggestion)
            /\ IsIn(all_issues["standards"], DocstringIssue) => IsIn(low, DocstringSuggestion)

\* a security issue, an unreachable-code bug and a docstring issue were found:
\* one suggestion in each tier
C26_Witness ==
    /\ mode = "recommend"
    /\ recommendations.high_priority = <<SecuritySuggestion>>
    /\ recommendations.medium_priority = <<UnreachableSuggestion>>
    /\ recommendations.low_priority = <<DocstringSuggestion>>

\* the references of the lists of the files' results
ResultRefs ==
    UNION {{memory.results[k][c] : c \in DOMAIN memory.results[k]} : k \in 1..Len(memory.results)}

\* the issues of a category over the files from k on, in the order of the files
RECURSIVE IssuesFrom(_, _)
IssuesFrom(category, k) ==
    IF k > Len(memory.results) THEN <<>>
    ELSE (IF category \in DOMAIN memory.results[k]
          THEN memory.before[memory.results[k][category]] ELSE <<>>)
             \o IssuesFrom(category, k + 1)

\* C27: generate_comprehensive_feedback leaves every result given to it as it
\* was: every list of every file's issues mapping holds the same ordered
\* sequence after the call as before it, and the aggregate over the files is
\* built in lists of its own, none of them a list of a file.
C27_ResultsUnchanged ==
    mode = "memory" =>
        /\ \A ref \in ResultRefs : memory.heap[ref] = memory.before[ref]
        /\ \A c \in DOMAIN memory.all_issues :
            /\ memory.all_issues[c] \notin ResultRefs
            /\ memory.heap[memory.all_issues[c]] = IssuesFrom(c, 1)

\* two files with one bug each have been aggregated
C27_Witness ==
    /\ mode = "memory"
    /\ Len(memory.results) = 2
    /\ memory.before[memory.results[1]["bugs"]] = <<IssueOfFile(1)>>
    /\ memory.before[memory.results[2]["bugs"]] = <<IssueOfFile(2)>>
    /\ memory.heap[memory.all_issues["bugs"]] = <<IssueOfFile(1), IssueOfFile(2)>>

\* the header of the request is "sha256=" and the HMAC-SHA256 of its body
SignatureMatches(secret, request) ==
    /\ request.header.present
    /\ request.header.value = Sha256Prefix \o hexdigest(secret, request.body)

\* C28: with a webhook secret configured, a GitHub request whose signature
\* header is missing or is not the HMAC-SHA256 of the body is answered with
\* 403 and starts no review thread; a thread is started only for a request
\* that passed verification, whose event is pull_request or
\* pull_request_target and whose action is opened, synchronize or reopened.
C28_VerifiedBeforeReview ==
    [][mode = "webhook" =>
        LET secret == webhook.secret
            request == webhook'.request
        IN  /\ (secret # NoSecret /\ ~SignatureMatches(secret, request)) =>
                    /\ webhook'.response.status = 403
                    /\ webhook'.threads = webhook.threads
            /\ webhook'.threads # webhook.threads =>
                    /\ secret = NoSecret \/ SignatureMatches(secret, request)
                    /\ request.event \in {"pull_request", "pull_request_target"}
                    /\ get_json(request.body).action \in {"opened", "synchronize", "reopened"}
                    /\ Len(webhook'.threads) = Len(webhook.threads) + 1]_vars

\* with a secret configured, a signed pull_request event has started a review
\* and a later request signed with another key has been answered with 403
C28_Witness ==
    /\ mode = "webhook"
    /\ webhook.secret = ConfiguredSecret
    /\ Len(webhook.threads) = 1
    /\ webhook.request.header = Header(Sha256Prefix \o hexdigest(OtherSecret, OpenedBody))
    /\ webhook.request.body = OpenedBody
    /\ webhook.request.event = "pull_request"
    /\ webhook.response.status = 403

\* the sum of the issue counts of the analysed files
RECURSIVE SumOfCounts(_)
SumOfCounts(counts) == IF counts = <<>> THEN 0 ELSE Head(counts) + SumOfCounts(Tail(counts))

\* the Python files of the change set
PythonFilesOf(pr_data) == {i \in 1..Len(pr_data) : EndsWith(pr_data[i], <<".", "p", "y">>)}

\* C29: in one review the report is posted at most once, only after every
\* file has been analysed and the report composed, and only when posting was
\* requested and the analysed files have more than 0 issues altogether; what
\* becomes of the posting changes neither the result nor the exit code.
C29_PostedOnceAfterReport ==
    mode = "cli" =>
        /\ Len(cli.posts) <= 1
        /\ cli.posts # <<>> =>
            /\ cli.post_comments
            /\ SumOfCounts(cli.counts) > 0
            /\ cli.report
            /\ Len(cli.counts) = Cardinality(PythonFilesOf(cli.pr_data))
        /\ (cli.pc = "done" /\ cli.report) =>
            /\ cli.result.kind = (IF cli.entry = "run_cli_mode" THEN "exit" ELSE "dict")
            /\ cli.result.total_issues = SumOfCounts(cli.counts)
            /\ cli.result.files_analyzed = Len(cli.counts)
            /\ cli.result.exit_code =
                (IF cli.entry = "run_cli_mode" /\ SumOfCounts(cli.counts) > 20 THEN 1 ELSE 0)

\* a review whose posting raised has returned what it found
C29_Witness ==
    /\ mode = "cli"
    /\ cli.pc = "done"
    /\ cli.posts = <<"raise">>
    /\ Len(cli.pr_data) = 2
    /\ cli.result.total_issues > 0

\* the review ended in an exception of the fetch or of the analysis
EndedInException == cli.pc = "done" /\ cli.raised

\* C30: run_cli_mode returns 1 exactly when fetching or analysing raised or the
\* analysed Python files have more than 20 issues altogether; it returns 0 for
\* a change set without files and for a total of 0 to 20 issues.
C30_ExitCode ==
    (mode = "cli" /\ cli.entry = "run_cli_mode" /\ cli.pc = "done") =>
        /\ cli.result.kind = "exit"
        /\ cli.result.exit_code = 1 <=> (EndedInException \/ SumOfCounts(cli.counts) > 20)
        /\ (~EndedInException /\ SumOfCounts(cli.counts) \in 0..20) => cli.result.exit_code = 0

\* run_cli_mode has returned 0 for exactly 20 issues, found in two files
C30_Witness ==
    /\ mode = "cli"
    /\ cli.entry = "run_cli_mode"
    /\ cli.pc = "done"
    /\ Len(cli.counts) = 2
    /\ SumOfCounts(cli.counts) = 20
    /\ cli.result.exit_code = 0

=============================================================================
